---- MODULE Spec2Model ----
(***************************************************************************)
(* Model of the ray-tracer kernel (hoyon/ray-tracer): tuple and matrix     *)
(* algebra (src/src/tuple.rs, src/src/matrix.rs) and the sphere with its   *)
(* identity counter, intersect and hit (src/src/sphere.rs), and the canvas *)
(* with its PPM output (src/src/canvas.rs, src/src/colour.rs).             *)
(*                                                                         *)
(* Scalars.  The program computes in f32.  A scalar is modelled by the     *)
(* rational number the f32 operation approximates: a record [n, d] in      *)
(* lowest terms with d > 0.  Rounding, infinities and NaN are outside the  *)
(* model; the inputs are finite, rays have a nonzero direction, and a      *)
(* square root is only taken of a rational square (see ExactRoot).         *)
(* Angles are drawn from a table of angles with rational sine and cosine.  *)
(* The tuple operators add, sub, mul and div round each component to the   *)
(* nearest f32 (F32), as the hardware does, on operands small enough for   *)
(* the exact result to fit the integers of the model.                      *)
(***************************************************************************)
EXTENDS Integers, Sequences, FiniteSets, TLC

\* ------------------------------------------------------------------ scalars

Abs(i) == IF i < 0 THEN -i ELSE i

RECURSIVE Gcd(_, _)
Gcd(a, b) == IF b = 0 THEN a ELSE Gcd(b, a % b)

\* the scalar n/d in lowest terms, d # 0
Q(n, d) ==
    LET g == Gcd(Abs(n), Abs(d))
        s == IF d < 0 THEN -1 ELSE 1
    IN  [n |-> s * (n \div g), d |-> s * (d \div g)]

I(i) == [n |-> i, d |-> 1]

Zero == I(0)
One == I(1)

\* f32 + : a + b
RAdd(a, b) ==
    LET g == Gcd(a.d, b.d)
    IN  Q(a.n * (b.d \div g) + b.n * (a.d \div g), (a.d \div g) * b.d)

\* f32 unary minus
RNeg(a) == [n |-> -a.n, d |-> a.d]

\* f32 - : a - b
RSub(a, b) == RAdd(a, RNeg(b))

\* f32 * : a * b
RMul(a, b) ==
    LET g1 == Gcd(Abs(a.n), b.d)
        g2 == Gcd(Abs(b.n), a.d)
    IN  [n |-> (a.n \div g1) * (b.n \div g2), d |-> (a.d \div g2) * (b.d \div g1)]

\* f32 / : a / b, b # 0
RDiv(a, b) ==
    RMul(a, IF b.n < 0 THEN [n |-> -b.d, d |-> -b.n] ELSE [n |-> b.d, d |-> b.n])

\* f32::abs
RAbs(a) == [n |-> Abs(a.n), d |-> a.d]

\* f32 < and >=
RLt(a, b) == a.n * b.d < b.n * a.d
RGe(a, b) == ~RLt(a, b)

\* the integer square root: the largest r with r * r <= i
RECURSIVE ISqrtFrom(_, _)
ISqrtFrom(i, r) == IF (r + 1) * (r + 1) > i THEN r ELSE ISqrtFrom(i, r + 1)

ISqrt(i) == ISqrtFrom(i, 0)

\* a >= 0 is the square of a rational: f32::sqrt(a) is then that rational
ExactRoot(a) ==
    a.n >= 0 /\ ISqrt(a.n) * ISqrt(a.n) = a.n /\ ISqrt(a.d) * ISqrt(a.d) = a.d

\* f32::sqrt on a rational square
RSqrt(a) == [n |-> ISqrt(a.n), d |-> ISqrt(a.d)]

\* std::f32::EPSILON = 2^-23 = 1 / EpsilonDen
EpsilonDen == 8388608

\* util::float_equality: (a - b).abs() <= EPSILON
float_equality(a, b) ==
    LET diff == RAbs(RSub(a, b))
    IN  diff.n <= diff.d \div EpsilonDen

\* the bits of an f32 significand, the hidden bit included
MantissaBits == 24

RECURSIVE Pow2(_)
Pow2(k) == IF k = 0 THEN 1 ELSE 2 * Pow2(k - 1)

\* n / d rounded to an integer, ties to the even one; n >= 0, d > 0
RoundTiesEven(n, d) ==
    LET q == n \div d
        r == n % d
    IN  IF 2 * r > d THEN q + 1
        ELSE IF 2 * r < d THEN q
        ELSE q + (q % 2)

\* the f32 nearest to (n / d) * 2^e, for n > 0 and d > 0: scale until the
\* quotient has MantissaBits bits, round it, scale back
RECURSIVE F32Scaled(_, _, _)
F32Scaled(n, d, e) ==
    IF n \div d >= Pow2(MantissaBits) THEN F32Scaled(n, 2 * d, e + 1)
    ELSE IF n \div d < Pow2(MantissaBits - 1) THEN F32Scaled(2 * n, d, e - 1)
    ELSE LET mant == RoundTiesEven(n, d)
         IN  IF e >= 0 THEN Q(mant * Pow2(e), 1) ELSE Q(mant, Pow2(-e))

\* the result of an f32 operation whose exact result is a: a rounded to the
\* nearest f32, ties to even (normal range)
F32(a) ==
    IF a.n = 0 THEN Zero
    ELSE IF a.n < 0 THEN RNeg(F32Scaled(-a.n, a.d, 0))
    ELSE F32Scaled(a.n, a.d, 0)

\* ------------------------------------------------------------------ tuples

raw(x, y, z, w) == [x |-> x, y |-> y, z |-> z, w |-> w]

point(x, y, z) == raw(x, y, z, One)

vector(x, y, z) == raw(x, y, z, Zero)

\* is_point testing w against 0.0 instead of 1.0
is_point_against_zero(self) ==
    LET diff == RAbs(RSub(self.w, Zero))
    IN  diff.n <= (diff.d - 1) \div EpsilonDen

\* Tuple::is_point: (self.w - 1.0).abs() < EPSILON, that is diff.n * EpsilonDen
\* < diff.d
is_point(self) ==
    LET diff == RAbs(RSub(self.w, One))
    IN  diff.n <= (diff.d - 1) \div EpsilonDen

\* Tuple::is_vector: self.w == 0.0
is_vector(self) == self.w = Zero

\* Tuple::dot
dot(a, b) ==
    RAdd(RAdd(RAdd(RMul(a.x, b.x), RMul(a.y, b.y)), RMul(a.z, b.z)), RMul(a.w, b.w))

\* impl Sub for Tuple
TSub(a, b) == raw(RSub(a.x, b.x), RSub(a.y, b.y), RSub(a.z, b.z), RSub(a.w, b.w))

\* impl Add for Tuple
add(a, b) ==
    raw(F32(RAdd(a.x, b.x)), F32(RAdd(a.y, b.y)), F32(RAdd(a.z, b.z)),
        F32(RAdd(a.w, b.w)))

\* subtraction that leaves w alone
sub_xyz(a, b) ==
    raw(F32(RSub(a.x, b.x)), F32(RSub(a.y, b.y)), F32(RSub(a.z, b.z)), a.w)

\* impl Sub for Tuple, each component rounded to f32
sub(a, b) ==
    raw(F32(RSub(a.x, b.x)), F32(RSub(a.y, b.y)), F32(RSub(a.z, b.z)),
        F32(RSub(a.w, b.w)))

\* impl Mul<f32> for Tuple
mul(a, rhs) ==
    raw(F32(RMul(a.x, rhs)), F32(RMul(a.y, rhs)), F32(RMul(a.z, rhs)),
        F32(RMul(a.w, rhs)))

\* impl Div<f32> for Tuple, rhs # 0
div(a, rhs) ==
    raw(F32(RDiv(a.x, rhs)), F32(RDiv(a.y, rhs)), F32(RDiv(a.z, rhs)),
        F32(RDiv(a.w, rhs)))

\* impl PartialEq for Tuple
TEq(a, b) ==
    /\ float_equality(a.x, b.x)
    /\ float_equality(a.y, b.y)
    /\ float_equality(a.z, b.z)
    /\ float_equality(a.w, b.w)

\* ------------------------------------------------------------------ matrices
\* A Matrix is [rows, cols, data], data the row-major cell buffer (1-based here).

\* the value a fatal assertion failure leaves in place of a result
Panic == [panic |-> TRUE]

new4x4(cells) == [rows |-> 4, cols |-> 4, data |-> cells]

new3x3(cells) == [rows |-> 3, cols |-> 3, data |-> cells]

new2x2(cells) == [rows |-> 2, cols |-> 2, data |-> cells]

\* Matrix::at, for r < rows and c < cols
at(M, r, c) == M.data[r * M.cols + c + 1]

\* Matrix::set_cell
set_cell(M, r, c, value) == [M EXCEPT !.data[r * M.cols + c + 1] = value]

\* Matrix::has_size
has_size(M, size) == M.rows = size /\ M.cols = size

\* the Vec with cells f[1], ..., f[n]
Vec(f, n) == SubSeq(f, 1, n)

\* Vec::remove(index), index 0-based
Remove(data, index) == SubSeq(data, 1, index) \o SubSeq(data, index + 2, Len(data))

\* the "remove column" loop of submatrix, iterations i..rows-1
RECURSIVE RemoveColumn(_, _, _, _, _)
RemoveColumn(data, i, rows, cols, col) ==
    IF i >= rows THEN data
    ELSE RemoveColumn(Remove(data, (col + i * cols) - i), i + 1, rows, cols, col)

\* the "remove row" loop of submatrix, count iterations left
RECURSIVE RemoveRow(_, _, _)
RemoveRow(data, index, count) ==
    IF count = 0 THEN data ELSE RemoveRow(Remove(data, index), index, count - 1)

\* submatrix whose "remove row" loop starts at index row instead of row * cols
submatrix_row_index(M, row, col) ==
    IF ~(M.rows > row /\ M.cols > col) THEN Panic
    ELSE LET noCol == RemoveColumn(M.data, 0, M.rows, M.cols, col)
             cols == M.cols - 1
         IN  [rows |-> M.rows - 1, cols |-> cols,
              data |-> RemoveRow(noCol, row, cols)]

\* submatrix that forgets result.rows -= 1
submatrix_rows_kept(M, row, col) ==
    IF ~(M.rows > row /\ M.cols > col) THEN Panic
    ELSE LET noCol == RemoveColumn(M.data, 0, M.rows, M.cols, col)
             cols == M.cols - 1
         IN  [rows |-> M.rows, cols |-> cols,
              data |-> RemoveRow(noCol, row * cols, cols)]

\* Matrix::submatrix; the assertion fails when row or col is out of range
submatrix(M, row, col) ==
    IF ~(M.rows > row /\ M.cols > col) THEN Panic
    ELSE LET noCol == RemoveColumn(M.data, 0, M.rows, M.cols, col)
             cols == M.cols - 1
         IN  [rows |-> M.rows - 1, cols |-> cols,
              data |-> RemoveRow(noCol, row * cols, cols)]

RECURSIVE determinant(_)
RECURSIVE minor(_, _, _)
RECURSIVE cofactor(_, _, _)
RECURSIVE DetSum(_, _)

\* the loop of determinant: the terms of columns i..cols-1
DetSum(M, i) ==
    IF i >= M.cols THEN Zero
    ELSE RAdd(RMul(at(M, 0, i), cofactor(M, 0, i)), DetSum(M, i + 1))

\* Matrix::determinant
determinant(M) ==
    IF has_size(M, 2)
    THEN RSub(RMul(at(M, 0, 0), at(M, 1, 1)), RMul(at(M, 0, 1), at(M, 1, 0)))
    ELSE DetSum(M, 0)

\* Matrix::minor
minor(M, row, col) == determinant(submatrix(M, row, col))

\* cofactor without the sign flip
cofactor_unsigned(M, row, col) == minor(M, row, col)

\* Matrix::cofactor
cofactor(M, row, col) ==
    IF (row + col) % 2 = 0 THEN minor(M, row, col) ELSE RNeg(minor(M, row, col))

\* transpose copying cell (r, c) instead of cell (c, r)
transpose_unswapped(M) ==
    [M EXCEPT !.data = Vec([k \in 1..Len(M.data) |->
        at(M, (k - 1) \div M.cols, (k - 1) % M.cols)], Len(M.data))]

\* Matrix::transpose, for a square matrix
transpose(M) ==
    [M EXCEPT !.data = Vec([k \in 1..Len(M.data) |->
        at(M, (k - 1) % M.cols, (k - 1) \div M.cols)], Len(M.data))]

\* the assertion of Matrix::invert fails
InvertPanics(M) == determinant(M) = Zero

\* the loops of Matrix::invert: cell (c, r) of the result is cofactor(r, c) / det
InvertCells(M, det) ==
    Vec([k \in 1..Len(M.data) |->
        RDiv(cofactor(M, (k - 1) % M.cols, (k - 1) \div M.cols), det)], Len(M.data))

\* invert writing cell (r, c) instead of (c, r): the transpose is lost
invert_untransposed(M) ==
    LET det == determinant(M)
    IN  IF det = Zero THEN Panic
        ELSE [M EXCEPT !.data = Vec([k \in 1..Len(M.data) |->
                RDiv(cofactor(M, (k - 1) \div M.cols, (k - 1) % M.cols), det)],
                Len(M.data))]

\* invert without its assertion: a singular matrix comes back as the clone
invert_unchecked(M) ==
    LET det == determinant(M)
    IN  IF det = Zero THEN M ELSE [M EXCEPT !.data = InvertCells(M, det)]

\* Matrix::invert
invert(M) ==
    LET det == determinant(M)
    IN  IF det = Zero THEN Panic ELSE [M EXCEPT !.data = InvertCells(M, det)]

\* Matrix::row and Matrix::col of a 4x4 matrix
row(M, r) == raw(at(M, r, 0), at(M, r, 1), at(M, r, 2), at(M, r, 3))

\* col reading along the row: cell (c, k) instead of cell (k, c)
col_along_row(M, c) == raw(at(M, c, 0), at(M, c, 1), at(M, c, 2), at(M, c, 3))

col(M, c) == raw(at(M, 0, c), at(M, 1, c), at(M, 2, c), at(M, 3, c))

\* the product asserting the size of the left operand only
Mul_left_checked(A, B) ==
    IF ~has_size(A, 4) THEN Panic
    ELSE IF ~has_size(B, 4) THEN A
    ELSE [A EXCEPT !.data = Vec([k \in 1..16 |->
            dot(row(A, (k - 1) \div 4), col(B, (k - 1) % 4))], 16)]

\* impl Mul<&Matrix> for &Matrix
Mul(A, B) ==
    IF ~(has_size(A, 4) /\ has_size(B, 4)) THEN Panic
    ELSE [A EXCEPT !.data = Vec([k \in 1..16 |->
            dot(row(A, (k - 1) \div 4), col(B, (k - 1) % 4))], 16)]

\* impl Mul<&Tuple> for &Matrix
MulTuple(A, t) ==
    IF ~(A.rows = 4 /\ A.cols = 4) THEN Panic
    ELSE raw(dot(t, row(A, 0)), dot(t, row(A, 1)), dot(t, row(A, 2)), dot(t, row(A, 3)))

\* impl Mul<Matrix> for Matrix: &self * &rhs
MulOwned(A, B) == Mul(A, B)

\* impl Mul<&Matrix> for Matrix: &self * rhs
MulOwnedRef(A, B) == Mul(A, B)

\* impl Mul<Matrix> for &Matrix: self * &rhs
MulRefOwned(A, B) == Mul(A, B)

\* impl Mul<Tuple> for Matrix: &self * &rhs
MulTupleOwned(A, t) == MulTuple(A, t)

\* impl Mul<&Tuple> for Matrix: &self * rhs
MulTupleOwnedRef(A, t) == MulTuple(A, t)

\* impl Mul<Tuple> for &Matrix: self * &rhs
MulTupleRefOwned(A, t) == MulTuple(A, t)

\* impl PartialEq for Matrix
MEq(A, B) ==
    IF A.rows # B.rows \/ A.cols # B.cols THEN FALSE
    ELSE \A k \in 1..Len(A.data) : float_equality(A.data[k], B.data[k])

\* identity whose last diagonal cell is left 0
identity_open ==
    new4x4(<<One, Zero, Zero, Zero,
             Zero, One, Zero, Zero,
             Zero, Zero, One, Zero,
             Zero, Zero, Zero, Zero>>)

\* Matrix::identity
identity ==
    new4x4(<<One, Zero, Zero, Zero,
             Zero, One, Zero, Zero,
             Zero, Zero, One, Zero,
             Zero, Zero, Zero, One>>)

\* translation with x, y, z in the last row instead of the last column
translation_in_row(x, y, z) ==
    set_cell(set_cell(set_cell(identity, 3, 0, x), 3, 1, y), 3, 2, z)

\* Matrix::translation
translation(x, y, z) ==
    set_cell(set_cell(set_cell(identity, 0, 3, x), 1, 3, y), 2, 3, z)

\* scaling that scales the cell (3, 3) as well
scaling_with_w(x, y, z) ==
    set_cell(set_cell(set_cell(set_cell(identity, 0, 0, x), 1, 1, y), 2, 2, z), 3, 3, x)

\* Matrix::scaling
scaling(x, y, z) ==
    set_cell(set_cell(set_cell(identity, 0, 0, x), 1, 1, y), 2, 2, z)

\* The angles of the model, as quarter turns and one angle with rational sine
\* and cosine: 0 is 0, 1 is pi/2, 2 is pi, 3 is atan(4/3).
Angles == 0..3

\* f32::cos
Cos(rad) ==
    CASE rad = 0 -> One [] rad = 1 -> Zero [] rad = 2 -> I(-1) [] rad = 3 -> Q(3, 5)

\* f32::sin
Sin(rad) ==
    CASE rad = 0 -> Zero [] rad = 1 -> One [] rad = 2 -> Zero [] rad = 3 -> Q(4, 5)

\* Matrix::rotation_x
rotation_x(rad) ==
    set_cell(set_cell(set_cell(set_cell(identity,
        1, 1, Cos(rad)), 2, 1, Sin(rad)), 1, 2, RNeg(Sin(rad))), 2, 2, Cos(rad))

\* Matrix::rotation_y
rotation_y(rad) ==
    set_cell(set_cell(set_cell(set_cell(identity,
        0, 0, Cos(rad)), 0, 2, Sin(rad)), 2, 0, RNeg(Sin(rad))), 2, 2, Cos(rad))

\* Matrix::rotation_z
rotation_z(rad) ==
    set_cell(set_cell(set_cell(set_cell(identity,
        0, 0, Cos(rad)), 0, 1, RNeg(Sin(rad))), 1, 0, Sin(rad)), 1, 1, Cos(rad))

\* translate multiplying the builder on the right
translate_right(M, x, y, z) == Mul(M, translation(x, y, z))

\* Matrix::translate
translate(M, x, y, z) == Mul(translation(x, y, z), M)

\* Matrix::scale
scale(M, x, y, z) == Mul(scaling(x, y, z), M)

\* Matrix::rotate_x
rotate_x(M, radians) == Mul(rotation_x(radians), M)

\* Matrix::rotate_y
rotate_y(M, radians) == Mul(rotation_y(radians), M)

\* Matrix::rotate_z
rotate_z(M, radians) == Mul(rotation_z(radians), M)

\* The calls of the methods as the code runs them: a frame holds the receiver
\* self (and the right operand rhs of a product) next to the local ret the
\* method builds and returns.

\* transpose reading the cell from ret, the buffer it is writing to
TransposeStep_in_place(f, k) ==
    LET r == k \div f.self.cols
        c == k % f.self.cols
    IN  [f EXCEPT !.ret = set_cell(f.ret, r, c, at(f.ret, c, r))]

\* one iteration of the loops of transpose, k = r * cols + c:
\* ret.set_cell(r, c, self.at(c, r))
TransposeStep(f, k) ==
    LET r == k \div f.self.cols
        c == k % f.self.cols
    IN  [f EXCEPT !.ret = set_cell(f.ret, r, c, at(f.self, c, r))]

\* the loops of transpose, iterations k..rows*cols-1
RECURSIVE TransposeLoop(_, _)
TransposeLoop(f, k) ==
    IF k >= f.self.rows * f.self.cols THEN f ELSE TransposeLoop(TransposeStep(f, k), k + 1)

\* Matrix::transpose as a call: let mut ret = self.clone(), then the loops
transpose_call(self) == TransposeLoop([self |-> self, ret |-> self], 0)

\* one iteration of the loops of invert, k = r * cols + c:
\* ret.set_cell(c, r, self.cofactor(r, c) / det)
InvertStep(f, det, k) ==
    LET r == k \div f.ret.cols
        c == k % f.ret.cols
    IN  [f EXCEPT !.ret = set_cell(f.ret, c, r, RDiv(cofactor(f.self, r, c), det))]

\* the loops of invert, iterations k..rows*cols-1
RECURSIVE InvertLoop(_, _, _)
InvertLoop(f, det, k) ==
    IF k >= f.ret.rows * f.ret.cols THEN f ELSE InvertLoop(InvertStep(f, det, k), det, k + 1)

\* Matrix::invert as a call
invert_call(self) ==
    LET det == determinant(self)
    IN  IF det = Zero THEN [self |-> self, ret |-> Panic]
        ELSE InvertLoop([self |-> self, ret |-> self], det, 0)

\* one iteration of the loops of the product, k = row * 4 + col:
\* ret.set_cell(row, col, Tuple::dot(&self.row(row), &rhs.col(col)))
MulStep(f, k) ==
    [f EXCEPT !.ret = set_cell(f.ret, k \div 4, k % 4,
                               dot(row(f.self, k \div 4), col(f.rhs, k % 4)))]

\* the loops of the product, iterations k..15
RECURSIVE MulLoop(_, _)
MulLoop(f, k) == IF k > 15 THEN f ELSE MulLoop(MulStep(f, k), k + 1)

\* impl Mul<&Matrix> for &Matrix as a call
mul_call(self, rhs) ==
    IF ~(has_size(self, 4) /\ has_size(rhs, 4))
    THEN [self |-> self, rhs |-> rhs, ret |-> Panic]
    ELSE MulLoop([self |-> self, rhs |-> rhs, ret |-> self], 0)

\* ------------------------------------------------------------------ rays and spheres

\* Ray::new
Ray(origin, direction) == [origin |-> origin, direction |-> direction]

\* Ray::transform: the ray with origin M * origin and direction M * direction
ray_transform(r, M) == Ray(MulTuple(M, r.origin), MulTuple(M, r.direction))

\* a Sphere is [id, transform]
Sphere(id, transform) == [id |-> id, transform |-> transform]

\* Intersection::new; object is the sphere borrowed, which cannot change while
\* the intersection lives
Intersection(t, object) == [t |-> t, object |-> object]

\* the coefficients of Sphere::intersect for the object-space ray
sphere_to_ray(ray) == TSub(ray.origin, point(Zero, Zero, Zero))

quad_a(ray) == dot(ray.direction, ray.direction)

quad_b(ray) == RMul(I(2), dot(ray.direction, sphere_to_ray(ray)))

quad_c(ray) == RSub(dot(sphere_to_ray(ray), sphere_to_ray(ray)), One)

discriminant(ray) ==
    RSub(RMul(quad_b(ray), quad_b(ray)), RMul(RMul(I(4), quad_a(ray)), quad_c(ray)))

\* intersect returning a single intersection for a tangent ray
intersect_local_collapsing(s, ray) ==
    LET a == quad_a(ray)
        b == quad_b(ray)
        d == discriminant(ray)
    IN  IF RLt(d, Zero) THEN <<>>
        ELSE IF d = Zero THEN <<Intersection(RDiv(RNeg(b), RMul(I(2), a)), s)>>
        ELSE <<Intersection(RDiv(RSub(RNeg(b), RSqrt(d)), RMul(I(2), a)), s),
               Intersection(RDiv(RAdd(RNeg(b), RSqrt(d)), RMul(I(2), a)), s)>>

\* intersect dividing by 2 instead of 2 * a
intersect_local_unit(s, ray) ==
    LET b == quad_b(ray)
        d == discriminant(ray)
    IN  IF RLt(d, Zero) THEN <<>>
        ELSE <<Intersection(RDiv(RSub(RNeg(b), RSqrt(d)), I(2)), s),
               Intersection(RDiv(RAdd(RNeg(b), RSqrt(d)), I(2)), s)>>

\* the two roots in the other order: (-b + sqrt) first
intersect_local_swapped(s, ray) ==
    LET a == quad_a(ray)
        b == quad_b(ray)
        d == discriminant(ray)
    IN  IF RLt(d, Zero) THEN <<>>
        ELSE <<Intersection(RDiv(RAdd(RNeg(b), RSqrt(d)), RMul(I(2), a)), s),
               Intersection(RDiv(RSub(RNeg(b), RSqrt(d)), RMul(I(2), a)), s)>>

\* the body of Sphere::intersect once the ray is in object space
intersect_local(s, ray) ==
    LET a == quad_a(ray)
        b == quad_b(ray)
        d == discriminant(ray)
    IN  IF RLt(d, Zero) THEN <<>>
        ELSE <<Intersection(RDiv(RSub(RNeg(b), RSqrt(d)), RMul(I(2), a)), s),
               Intersection(RDiv(RAdd(RNeg(b), RSqrt(d)), RMul(I(2), a)), s)>>

\* intersect transforming the ray by the transform instead of its inverse
intersect_forward(s, orig_ray) ==
    IF invert(s.transform) = Panic THEN Panic
    ELSE [list |-> intersect_local(s, ray_transform(orig_ray, s.transform))]

\* intersect that reports a miss when the transform has no inverse
intersect_or_miss(s, orig_ray) ==
    LET inv == invert(s.transform)
    IN  IF inv = Panic THEN [list |-> <<>>]
        ELSE [list |-> intersect_local(s, ray_transform(orig_ray, inv))]

\* Sphere::intersect: the Vec returned as [list |-> ...], Panic when invert()
\* fails on the transform
intersect(s, orig_ray) ==
    LET inv == invert(s.transform)
    IN  IF inv = Panic THEN Panic
        ELSE [list |-> intersect_local(s, ray_transform(orig_ray, inv))]

\* the roots of the ray against the sphere are rational, or there is none
Representable(s, orig_ray) ==
    LET inv == invert(s.transform)
    IN  IF inv = Panic THEN TRUE
        ELSE LET d == discriminant(ray_transform(orig_ray, inv))
             IN  RLt(d, Zero) \/ ExactRoot(d)

\* the fold of Iterator::min_by over the elements that passed the filter: the
\* first of the least elements
RECURSIVE min_by_t(_, _)
min_by_t(best, rest) ==
    IF rest = <<>> THEN best
    ELSE min_by_t(IF RLt(Head(rest).t, best.t) THEN Head(rest) ELSE best, Tail(rest))

\* Iterator::filter(|i| i.t >= 0.0)
RECURSIVE filter_nonnegative(_)
filter_nonnegative(intersections) ==
    IF intersections = <<>> THEN <<>>
    ELSE IF RGe(Head(intersections).t, Zero)
         THEN <<Head(intersections)>> \o filter_nonnegative(Tail(intersections))
         ELSE filter_nonnegative(Tail(intersections))

\* no operand, no result; Option::None
None == [none |-> TRUE]

\* no hit call is in progress
NoCall == [nocall |-> TRUE]

\* hit keeping only the intersections with t > 0
hit_positive(intersections) ==
    LET kept == SelectSeq(intersections, LAMBDA i : RLt(Zero, i.t))
    IN  IF kept = <<>> THEN None ELSE min_by_t(Head(kept), Tail(kept))

\* hit
hit(intersections) ==
    LET kept == filter_nonnegative(intersections)
    IN  IF kept = <<>> THEN None ELSE min_by_t(Head(kept), Tail(kept))

\* ------------------------------------------------------------------ colours and canvas
\* A String is the sequence of its characters, each a string of length 1.

\* Colour::new
Colour(r, g, b) == [r |-> r, g |-> g, b |-> b]

\* impl PartialEq for Colour
CEq(a, b) ==
    /\ float_equality(a.r, b.r)
    /\ float_equality(a.g, b.g)
    /\ float_equality(a.b, b.b)

\* Canvas::new
canvas_new(width, height) ==
    LET pixel_count == width * height
        black == Colour(Zero, Zero, Zero)
    IN  [pixels |-> Vec([k \in 1..pixel_count |-> black], pixel_count),
         width |-> width, height |-> height]

\* write_pixel that leaves y out of the index
write_pixel_first_row(self, x, y, colour) ==
    LET index == x
    IN  IF index >= Len(self.pixels) THEN Panic
        ELSE [self EXCEPT !.pixels[index + 1] = colour]

\* Canvas::write_pixel; indexing past the end of pixels fails fatally
write_pixel(self, x, y, colour) ==
    LET index == y * self.width + x
    IN  IF index >= Len(self.pixels) THEN Panic
        ELSE [self EXCEPT !.pixels[index + 1] = colour]

\* Canvas::read_pixel, for an index within pixels
read_pixel(self, x, y) ==
    LET index == y * self.width + x
    IN  self.pixels[index + 1]

\* the characters of the decimal digits
Digits == <<"0", "1", "2", "3", "4", "5", "6", "7", "8", "9">>

\* u8::to_string and u32::to_string
RECURSIVE to_string(_)
to_string(v) ==
    IF v < 10 THEN <<Digits[v + 1]>> ELSE Append(to_string(v \div 10), Digits[(v % 10) + 1])

\* f32::round of a >= 0: half away from zero
RRound(a) == (2 * a.n + a.d) \div (2 * a.d)

\* convert_pixel: (pixel.min(1.0).max(0.0) * 255.0).round() as u8
convert_pixel(pixel) ==
    LET low == IF RLt(One, pixel) THEN One ELSE pixel
        clamped == IF RLt(low, Zero) THEN Zero ELSE low
    IN  RRound(RMul(clamped, I(255)))

\* format_colour
format_colour(colour) ==
    <<to_string(convert_pixel(colour.r)), to_string(convert_pixel(colour.g)),
      to_string(convert_pixel(colour.b))>>

\* ppm_header: "P3\n{width} {height}\n255\n"
ppm_header(width, height) ==
    <<"P", "3", "\n">> \o to_string(width) \o <<" ">> \o to_string(height)
        \o <<"\n", "2", "5", "5", "\n">>

\* the white space str::trim removes
IsSpace(ch) == ch \in {" ", "\n"}

RECURSIVE TrimStart(_)
TrimStart(str) ==
    IF str # <<>> /\ IsSpace(Head(str)) THEN TrimStart(Tail(str)) ELSE str

RECURSIVE TrimEnd(_)
TrimEnd(str) ==
    IF str # <<>> /\ IsSpace(str[Len(str)])
    THEN TrimEnd(SubSeq(str, 1, Len(str) - 1)) ELSE str

\* str::trim
Trim(str) == TrimStart(TrimEnd(str))

\* [String]::join
RECURSIVE Join(_, _)
Join(lines, sep) ==
    IF lines = <<>> THEN <<>>
    ELSE IF Len(lines) = 1 THEN lines[1]
    ELSE lines[1] \o sep \o Join(Tail(lines), sep)

\* the longest line of pixel data combine_numbers lets through
LineLimit == 70

\* the test of combine_numbers that looks at the line only, not at the number
LineIsFull_without_number(current_line, n) == Len(current_line) > LineLimit

\* the test of combine_numbers: current_line.len() + n.len() > 70
LineIsFull(current_line, n) == Len(current_line) + Len(n) > LineLimit

\* one iteration of the loop of combine_numbers, on the number n; the state of
\* the loop is [lines, current_line]
CombineStep(st, n) ==
    IF LineIsFull(st.current_line, n)
    THEN [lines |-> Append(st.lines, Trim(st.current_line)),
          current_line |-> n \o <<" ">>]
    ELSE [lines |-> st.lines, current_line |-> st.current_line \o n \o <<" ">>]

\* the iterations of the loop of combine_numbers for numbers[lo..hi], in order
\* (the first half, then the second half from the state the first half left)
RECURSIVE CombineLoop(_, _, _, _)
CombineLoop(numbers, lo, hi, st) ==
    IF lo > hi THEN st
    ELSE IF lo = hi THEN CombineStep(st, numbers[lo])
    ELSE LET mid == (lo + hi) \div 2
         IN  CHOOSE done \in {CombineLoop(numbers, mid + 1, hi, half) :
                                 half \in {CombineLoop(numbers, lo, mid, st)}} : TRUE

\* combine_numbers
combine_numbers(numbers) ==
    LET done == CombineLoop(numbers, 1, Len(numbers), [lines |-> <<>>, current_line |-> <<>>])
        trimmed == Trim(done.current_line)
    IN  Join(IF trimmed # <<>> THEN Append(done.lines, trimmed) ELSE done.lines, <<"\n">>)

\* the inner loop of to_ppm: row_numbers for the columns col..width-1 of a row
RECURSIVE RowNumbers(_, _, _)
RowNumbers(self, r, c) ==
    IF c >= self.width THEN <<>>
    ELSE format_colour(read_pixel(self, c, r)) \o RowNumbers(self, r, c + 1)

\* the outer loop of to_ppm: data for the rows r..height-1
RECURSIVE PpmData(_, _)
PpmData(self, r) ==
    IF r >= self.height THEN <<>>
    ELSE combine_numbers(RowNumbers(self, r, 0)) \o <<"\n">> \o PpmData(self, r + 1)

\* Canvas::to_ppm
to_ppm(self) == ppm_header(self.width, self.height) \o PpmData(self, 0)

\* ------------------------------------------------------------------ inputs

\* a row-major list of integers as cells
Cells(ints) == Vec([k \in 1..Len(ints) |-> I(ints[k])], Len(ints))

\* an invertible 4x4 matrix, determinant 2
MatA ==
    new4x4(Cells(<<1, 2, 0, 0,
                   0, 1, 0, 1,
                   1, 0, 2, 0,
                   0, 0, 1, 2>>))

\* an invertible 4x4 matrix, determinant -3
MatB ==
    new4x4(Cells(<<2, 0, 1, 0,
                   0, 1, 0, 0,
                   1, 0, -1, 2,
                   0, 1, 0, 1>>))

\* the singular matrix of test_invert_uninvertable_matrix
MatSingular ==
    new4x4(Cells(<<-4, 2, -2, -3,
                   9, 6, 2, 6,
                   0, -5, 1, -5,
                   0, 0, 0, 0>>))

\* the matrices of test_determinant_of_2x2_matrix and test_cofactor_of_3x3
Mat2 == new2x2(Cells(<<1, 5, -3, 2>>))

Mat3 == new3x3(Cells(<<3, 5, 0, 2, -1, -7, 6, -1, 5>>))

\* the matrices of test_determinant_of_3x3_matrix and test_determinant_of_4x4_matrix
MatDet3 == new3x3(Cells(<<1, 2, 6, -5, 8, -4, 2, 6, 4>>))

MatDet4 ==
    new4x4(Cells(<<-2, -8, 3, 5,
                   -3, 1, 7, 3,
                   1, 2, -9, 6,
                   -6, 7, 7, -9>>))

\* the matrix of test_multiplying_matrix_with_identity
MatTimesIdentity ==
    new4x4(Cells(<<1, 2, 3, 4,
                   2, 4, 4, 2,
                   8, 6, 4, 1,
                   0, 0, 0, 1>>))

\* the offsets of the translations: the one of the tests, no offset, and one
\* with a fraction
Offsets == {<<I(5), I(-3), I(2)>>, <<Zero, Zero, Zero>>, <<I(-1), Q(1, 2), I(7)>>}

\* the operands of the matrix operations
Matrices ==
    {identity, MatA, MatB, MatSingular, Mat2, Mat3, MatDet3, MatDet4, MatTimesIdentity,
     scaling(I(2), I(3), I(4)), scaling(Zero, One, One),
     rotation_x(3), rotate_y(translation(I(1), I(2), I(3)), 1)}
    \cup {translation(o[1], o[2], o[3]) : o \in Offsets}

\* the builder matrices of the fluent methods translate, scale, rotate_x, rotate_y
\* and rotate_z
Builders ==
    {translation(I(10), I(5), I(7)), scaling(I(5), Q(1, 2), I(2)),
     rotation_x(1), rotation_y(3), rotation_z(1)}

\* the tuples the matrices are applied to
Tuples ==
    {point(I(1), Zero, One), point(I(-3), I(4), I(5)), vector(I(-3), I(4), I(5)),
     raw(One, I(2), I(3), I(2)), raw(One, I(2), I(3), One), vector(Q(1, 2), Zero, I(-2))}

\* the operands of the tuple arithmetic: the tuples of the tests of tuple.rs,
\* and tuples with components at the end of the range where every integer is
\* an f32
ArithTuples ==
    {point(I(3), I(-2), I(5)), vector(I(-2), I(3), I(1)), raw(One, I(-2), I(3), I(-4)),
     vector(I(16777216), Zero, Zero), point(I(5592407), Q(1, 2), I(-1)),
     raw(Q(7, 2), Q(-3, 4), I(100), I(2))}

\* the scalars a tuple is multiplied and divided by
ArithScalars == {I(3), Q(7, 2), Q(1, 2), I(-2)}

\* the values of w around 0.0 and 1.0, one or two units in the last place apart:
\* 0, EPSILON/2, EPSILON, -EPSILON, 1 - EPSILON/2, 1, 1 + EPSILON, 1 + 2*EPSILON,
\* and 1/2 and 2 away from both
KindWs ==
    {Zero, Q(1, 2 * EpsilonDen), Q(1, EpsilonDen), Q(-1, EpsilonDen),
     Q(2 * EpsilonDen - 1, 2 * EpsilonDen), One, Q(EpsilonDen + 1, EpsilonDen),
     Q(EpsilonDen + 2, EpsilonDen), Q(1, 2), I(2)}

\* the tuples whose kinds are compared: x is 1/2 or the next f32 after it
KindTuples ==
    {raw(x, I(-2), I(3), w) : x \in {Q(1, 2), Q(EpsilonDen + 1, 2 * EpsilonDen)},
                              w \in KindWs}

\* the colours written to a canvas: the ones of the tests of canvas.rs, and one
\* with a negative component and two-digit values
Black == Colour(Zero, Zero, Zero)

Colours ==
    {Black, Colour(One, Zero, Zero), Colour(Q(3, 2), Zero, Zero),
     Colour(Zero, Q(1, 2), Zero), Colour(Q(1, 2), Zero, One),
     Colour(One, Q(4, 5), Q(3, 5)), Colour(Q(-1, 2), Q(1, 10), Q(3, 10))}

\* the colours written pixel by pixel
FewColours == {Colour(One, Zero, Zero), Colour(Zero, Q(1, 2), Zero), Black}

\* the largest width and height of a canvas written pixel by pixel
MaxSide == 2

\* the most write_pixel calls on such a canvas
MaxWrites == 3

\* the widths and the largest height of the canvases written out as PPM
PpmWidths == {0, 1, 5, 6, 10, 12}

MaxHeight == 2

\* the most single write_pixel calls on a canvas written out as PPM
MaxPpmWrites == 1

\* the threads of the process
Threads == {1, 2}

\* the most spheres constructed
MaxSpheres == 2

\* the transforms assigned to a sphere's transform field
Transforms ==
    {identity, scaling(I(2), I(2), I(2)), translation(I(5), Zero, Zero),
     scaling(Zero, Zero, Zero), scaling(One, I(2), Q(1, 2)),
     translation(Zero, One, Zero), rotation_x(3),
     translate(rotate_z(scaling(I(2), I(2), I(2)), 1), Zero, Zero, One)}

\* the rays of the tests of sphere.rs, and rays along x and y whose direction
\* is not a unit vector
Rays ==
    {Ray(point(Zero, Zero, I(-5)), vector(Zero, Zero, One)),
     Ray(point(Zero, One, I(-5)), vector(Zero, Zero, One)),
     Ray(point(Zero, I(2), I(-5)), vector(Zero, Zero, One)),
     Ray(point(Zero, Zero, Zero), vector(Zero, Zero, One)),
     Ray(point(Zero, Zero, I(5)), vector(Zero, Zero, One)),
     Ray(point(I(-3), Zero, Zero), vector(I(2), Zero, Zero)),
     Ray(point(I(5), Zero, Zero), vector(I(-1), Zero, Zero)),
     Ray(point(One, I(4), Zero), vector(Zero, I(-2), Zero)),
     Ray(point(Zero, I(-3), One), vector(Zero, One, Zero)),
     Ray(point(I(6), Zero, Zero), vector(Zero, Zero, One)),
     Ray(point(Zero, Zero, I(2)), vector(Zero, Zero, Q(1, 2))),
     Ray(point(Zero, I(3), Zero), vector(Zero, Zero, I(-1))),
     Ray(point(One, Zero, I(-4)), vector(Zero, Zero, I(2))),
     Ray(point(I(5), Zero, I(3)), vector(Zero, Zero, I(-1))),
     Ray(point(I(-2), I(-1), Zero), vector(One, Zero, Zero)),
     Ray(point(Zero, Zero, One), vector(Zero, I(3), Zero))}

\* the transforms and rays used while spheres are constructed on several threads
FewTransforms == {scaling(I(2), I(2), I(2)), translation(I(5), Zero, Zero)}

FewRays ==
    {Ray(point(Zero, Zero, I(-5)), vector(Zero, Zero, One)),
     Ray(point(Zero, I(2), I(-5)), vector(Zero, Zero, One))}

\* the intersections handed to hit: two spheres, and the values of t of the tests
HitSpheres == <<Sphere(0, identity), Sphere(1, identity)>>

HitElems ==
    {Intersection(I(t), HitSpheres[1]) : t \in {-2, -1, 0, 2, 5, 7}}
    \cup {Intersection(I(t), HitSpheres[2]) : t \in {-1, 2}}

\* the longest list handed to hit
MaxLen == 4

HitLists == UNION {[1..n -> HitElems] : n \in 0..MaxLen}

\* the receivers of the fluent calls
FluentBases == {identity, MatA, translation(One, I(2), I(3))}

\* the matrices a sequence of calls starts from: the constructors and the builders
ReachBases == {Mat2, Mat3, MatA, identity, translation(One, I(2), I(3)), rotation_z(3)}

\* the matrices a matrix is multiplied with
ReachOperands == {MatB, scaling(I(2), I(3), I(4))}

\* the longest sequence of calls made on the matrices returned
MaxCalls == 2

\* the longest chain of fluent calls
MaxChain == 3

\* ------------------------------------------------------------------ state

VARIABLES
    m,          \* fluent chain: the matrix the chain has built so far
    prev,       \* fluent chain: the receiver of the last call of the chain
    base,       \* fluent chain: the matrix the chain started from
    chain,      \* fluent chain: the builder matrices of the calls made, in call order
                \* (the name of the call, for a call without a builder)
    op,         \* matrix operation: the operation last called
    recv,       \* matrix operation: its receiver (left operand)
    arg,        \* matrix operation: its argument (right operand)
    res,        \* matrix operation: what it returned, Panic when it failed fatally
    called,     \* matrix operation: the receiver and argument as the caller passed them
    counter,    \* NEXT_ID_COUNTER, one cell per thread (thread_local!)
    pc,         \* per thread: where it is in Sphere::new
    next,       \* per thread: the local next of Sphere::new
    spheres,    \* the spheres constructed, in construction order
    maker,      \* for each sphere, the thread that constructed it
    ray,        \* the ray of the last intersect call
    target,     \* the index in spheres of the sphere it was called on
    xs,         \* the intersections it returned
    panicked,   \* whether it failed fatally instead of returning
    hxs,        \* the list handed to the last hit call
    hres,       \* what hit returned: an intersection or None; NoCall before a call
    canvas,     \* the Canvas: [pixels, width, height]
    written,    \* for each (x, y) written so far, the colour of the last write
    writes,     \* the number of write_pixel calls made on the canvas
    ppm         \* what to_ppm returned, <<>> before a call

vars ==
    <<m, prev, base, chain, op, recv, arg, res, called,
      counter, pc, next, spheres, maker, ray, target, xs, panicked,
      hxs, hres, canvas, written, writes, ppm>>

canvasVars == <<canvas, written, writes, ppm>>

sphereVars == <<counter, pc, next, spheres, maker, ray, target, xs, panicked>>

hitVars == <<hxs, hres>>

fluentVars == <<m, prev, base, chain>>

matrixVars == <<op, recv, arg, res, called>>

Init ==
    /\ m = identity
    /\ prev = identity
    /\ base = identity
    /\ chain = <<>>
    /\ op = "none"
    /\ recv = None
    /\ arg = None
    /\ res = None
    /\ called = None
    /\ counter = [t \in Threads |-> 0]
    /\ pc = [t \in Threads |-> "idle"]
    /\ next = [t \in Threads |-> 0]
    /\ spheres = <<>>
    /\ maker = <<>>
    /\ ray = None
    /\ target = 0
    /\ xs = <<>>
    /\ panicked = FALSE
    /\ hxs = <<>>
    /\ hres = NoCall
    /\ canvas = canvas_new(0, 0)
    /\ written = <<>>
    /\ writes = 0
    /\ ppm = <<>>

\* ------------------------------------------------------------------ fluent chains

\* let t = M; a new chain starts
Start(M) ==
    /\ m' = M
    /\ prev' = M
    /\ base' = M
    /\ chain' = <<>>
    /\ UNCHANGED <<matrixVars, sphereVars, hitVars, canvasVars>>

\* m.translate(x, y, z)
Translate(x, y, z) ==
    /\ Len(chain) < MaxChain
    /\ m' = translate(m, x, y, z)
    /\ prev' = m
    /\ chain' = Append(chain, translation(x, y, z))
    /\ UNCHANGED <<base, matrixVars, sphereVars, hitVars, canvasVars>>

\* m.scale(x, y, z)
Scale(x, y, z) ==
    /\ Len(chain) < MaxChain
    /\ m' = scale(m, x, y, z)
    /\ prev' = m
    /\ chain' = Append(chain, scaling(x, y, z))
    /\ UNCHANGED <<base, matrixVars, sphereVars, hitVars, canvasVars>>

\* m.rotate_x(radians)
RotateX(radians) ==
    /\ Len(chain) < MaxChain
    /\ m' = rotate_x(m, radians)
    /\ prev' = m
    /\ chain' = Append(chain, rotation_x(radians))
    /\ UNCHANGED <<base, matrixVars, sphereVars, hitVars, canvasVars>>

\* m.rotate_y(radians)
RotateY(radians) ==
    /\ Len(chain) < MaxChain
    /\ m' = rotate_y(m, radians)
    /\ prev' = m
    /\ chain' = Append(chain, rotation_y(radians))
    /\ UNCHANGED <<base, matrixVars, sphereVars, hitVars, canvasVars>>

\* m.rotate_z(radians)
RotateZ(radians) ==
    /\ Len(chain) < MaxChain
    /\ m' = rotate_z(m, radians)
    /\ prev' = m
    /\ chain' = Append(chain, rotation_z(radians))
    /\ UNCHANGED <<base, matrixVars, sphereVars, hitVars, canvasVars>>

NextFluent ==
    \/ \E M \in FluentBases : Start(M)
    \/ Translate(I(10), I(5), I(7))
    \/ \E k \in {I(5), Q(1, 2)} : Scale(k, k, k)
    \/ \E a \in {1, 3} : RotateX(a)
    \/ RotateY(1)
    \/ RotateZ(3)

SpecFluent == Init /\ [][NextFluent]_vars

\* Sequences of calls, each on the matrix the call before returned. A call that
\* fails fatally returns no matrix: it ends the program and is no step here.

\* m.transpose()
ThenTranspose ==
    /\ Len(chain) < MaxCalls
    /\ m.rows = m.cols
    /\ m' = transpose(m)
    /\ prev' = m
    /\ chain' = Append(chain, [call |-> "transpose"])
    /\ UNCHANGED <<base, matrixVars, sphereVars, hitVars, canvasVars>>

\* m.submatrix(r, c)
ThenSubmatrix(r, c) ==
    /\ Len(chain) < MaxCalls
    /\ submatrix(m, r, c) # Panic
    /\ m' = submatrix(m, r, c)
    /\ prev' = m
    /\ chain' = Append(chain, [call |-> "submatrix"])
    /\ UNCHANGED <<base, matrixVars, sphereVars, hitVars, canvasVars>>

\* m.invert()
ThenInvert ==
    /\ Len(chain) < MaxCalls
    /\ ~InvertPanics(m)
    /\ m' = invert(m)
    /\ prev' = m
    /\ chain' = Append(chain, [call |-> "invert"])
    /\ UNCHANGED <<base, matrixVars, sphereVars, hitVars, canvasVars>>

\* &m * &B
ThenMultiply(B) ==
    /\ Len(chain) < MaxCalls
    /\ Mul(m, B) # Panic
    /\ m' = Mul(m, B)
    /\ prev' = m
    /\ chain' = Append(chain, [call |-> "mul"])
    /\ UNCHANGED <<base, matrixVars, sphereVars, hitVars, canvasVars>>

\* m.translate(..), m.scale(..), m.rotate_x(..), m.rotate_y(..), m.rotate_z(..)
ThenFluent(builder) ==
    /\ Len(chain) < MaxCalls
    /\ Mul(builder, m) # Panic
    /\ m' = Mul(builder, m)
    /\ prev' = m
    /\ chain' = Append(chain, builder)
    /\ UNCHANGED <<base, matrixVars, sphereVars, hitVars, canvasVars>>

NextReach ==
    \/ \E M \in ReachBases : Start(M)
    \/ ThenTranspose
    \/ \E r \in 0..3, c \in 0..3 : ThenSubmatrix(r, c)
    \/ ThenInvert
    \/ \E B \in ReachOperands : ThenMultiply(B)
    \/ \E builder \in Builders : ThenFluent(builder)

SpecReach == Init /\ [][NextReach]_vars

\* ------------------------------------------------------------------ matrix operations

\* A.invert()
Invert(A) ==
    /\ op = "none"
    /\ op' = "invert"
    /\ recv' = A
    /\ arg' = None
    /\ res' = invert(A)
    /\ UNCHANGED <<called, fluentVars, sphereVars, hitVars, canvasVars>>

\* &A * &B
Multiply(A, B) ==
    /\ op = "none"
    /\ op' = "mul"
    /\ recv' = A
    /\ arg' = B
    /\ res' = Mul(A, B)
    /\ UNCHANGED <<called, fluentVars, sphereVars, hitVars, canvasVars>>

\* &A * &t
MultiplyTuple(A, t) ==
    /\ op = "none"
    /\ op' = "mul_tuple"
    /\ recv' = A
    /\ arg' = t
    /\ res' = MulTuple(A, t)
    /\ UNCHANGED <<called, fluentVars, sphereVars, hitVars, canvasVars>>

\* &A.invert() * &t
InvertMultiplyTuple(A, t) ==
    /\ op = "none"
    /\ op' = "invert_mul_tuple"
    /\ recv' = A
    /\ arg' = t
    /\ res' = LET inv == invert(A) IN IF inv = Panic THEN Panic ELSE MulTuple(inv, t)
    /\ UNCHANGED <<called, fluentVars, sphereVars, hitVars, canvasVars>>

\* A.submatrix(row, col)
Submatrix(A, r, c) ==
    /\ op = "none"
    /\ op' = "submatrix"
    /\ recv' = A
    /\ arg' = [row |-> r, col |-> c]
    /\ res' = submatrix(A, r, c)
    /\ UNCHANGED <<called, fluentVars, sphereVars, hitVars, canvasVars>>

\* A.determinant()
Determinant(A) ==
    /\ op = "none"
    /\ op' = "determinant"
    /\ recv' = A
    /\ arg' = None
    /\ res' = determinant(A)
    /\ UNCHANGED <<called, fluentVars, sphereVars, hitVars, canvasVars>>

\* A.transpose()
Transpose(A) ==
    /\ op = "none"
    /\ op' = "transpose"
    /\ recv' = A
    /\ arg' = None
    /\ res' = transpose(A)
    /\ UNCHANGED <<called, fluentVars, sphereVars, hitVars, canvasVars>>

\* a + b
Add(a, b) ==
    /\ op = "none"
    /\ op' = "add"
    /\ recv' = a
    /\ arg' = b
    /\ res' = add(a, b)
    /\ UNCHANGED <<called, fluentVars, sphereVars, hitVars, canvasVars>>

\* (a + b) - b: the sum just computed, minus its right operand
ThenSub ==
    /\ op = "add"
    /\ op' = "add_sub"
    /\ res' = sub(res, arg)
    /\ UNCHANGED <<recv, arg, called, fluentVars, sphereVars, hitVars, canvasVars>>

\* a * s
MulScalar(a, s) ==
    /\ op = "none"
    /\ op' = "mul_scalar"
    /\ recv' = a
    /\ arg' = s
    /\ res' = mul(a, s)
    /\ UNCHANGED <<called, fluentVars, sphereVars, hitVars, canvasVars>>

\* (a * s) / s: the product just computed, divided by its scalar
ThenDiv ==
    /\ op = "mul_scalar"
    /\ op' = "mul_div"
    /\ res' = div(res, arg)
    /\ UNCHANGED <<recv, arg, called, fluentVars, sphereVars, hitVars, canvasVars>>

\* the caller drops the operands and the result
Return ==
    /\ op # "none"
    /\ op' = "none"
    /\ recv' = None
    /\ arg' = None
    /\ res' = None
    /\ called' = None
    /\ UNCHANGED <<fluentVars, sphereVars, hitVars, canvasVars>>

NextMatrix ==
    \/ Return
    \/ \E A \in Matrices : Invert(A)
    \/ \E A \in Matrices, B \in Matrices : Multiply(A, B)
    \/ \E A \in Matrices, t \in Tuples : MultiplyTuple(A, t)
    \/ \E A \in Matrices, t \in Tuples : InvertMultiplyTuple(A, t)
    \/ \E A \in Matrices, r \in 0..3, c \in 0..3 : Submatrix(A, r, c)
    \/ \E A \in Matrices : Determinant(A)
    \/ \E A \in Matrices : Transpose(A)

SpecMatrix == Init /\ [][NextMatrix]_vars

\* the matrix operations as calls: recv and arg are the receiver and the argument
\* as the call leaves them, called is what the caller passed

\* A.transpose()
CallTranspose(A) ==
    /\ op = "none"
    /\ op' = "transpose"
    /\ called' = [recv |-> A, arg |-> None]
    /\ \E f \in {transpose_call(A)} : recv' = f.self /\ res' = f.ret
    /\ arg' = None
    /\ UNCHANGED <<fluentVars, sphereVars, hitVars, canvasVars>>

\* A.invert()
CallInvert(A) ==
    /\ op = "none"
    /\ op' = "invert"
    /\ called' = [recv |-> A, arg |-> None]
    /\ \E f \in {invert_call(A)} : recv' = f.self /\ res' = f.ret
    /\ arg' = None
    /\ UNCHANGED <<fluentVars, sphereVars, hitVars, canvasVars>>

\* &A * &B
CallMultiply(A, B) ==
    /\ op = "none"
    /\ op' = "mul"
    /\ called' = [recv |-> A, arg |-> B]
    /\ \E f \in {mul_call(A, B)} : recv' = f.self /\ arg' = f.rhs /\ res' = f.ret
    /\ UNCHANGED <<fluentVars, sphereVars, hitVars, canvasVars>>

\* A.submatrix(row, col): the columns and rows are removed from the clone result
CallSubmatrix(A, r, c) ==
    /\ op = "none"
    /\ op' = "submatrix"
    /\ called' = [recv |-> A, arg |-> [row |-> r, col |-> c]]
    /\ recv' = A
    /\ arg' = [row |-> r, col |-> c]
    /\ res' = submatrix(A, r, c)
    /\ UNCHANGED <<fluentVars, sphereVars, hitVars, canvasVars>>

\* A.determinant(): it reads cells only
CallDeterminant(A) ==
    /\ op = "none"
    /\ op' = "determinant"
    /\ called' = [recv |-> A, arg |-> None]
    /\ recv' = A
    /\ arg' = None
    /\ res' = determinant(A)
    /\ UNCHANGED <<fluentVars, sphereVars, hitVars, canvasVars>>

\* A.translate(..), A.scale(..), A.rotate_x(..), A.rotate_y(..), A.rotate_z(..):
\* the builder matrix times self
CallFluent(A, builder) ==
    /\ op = "none"
    /\ op' = "fluent"
    /\ called' = [recv |-> A, arg |-> builder]
    /\ \E f \in {mul_call(builder, A)} : recv' = f.rhs /\ arg' = f.self /\ res' = f.ret
    /\ UNCHANGED <<fluentVars, sphereVars, hitVars, canvasVars>>

NextCall ==
    \/ Return
    \/ \E A \in Matrices : CallTranspose(A)
    \/ \E A \in Matrices : CallInvert(A)
    \/ \E A \in Matrices, B \in Matrices : CallMultiply(A, B)
    \/ \E A \in Matrices, r \in 0..3, c \in 0..3 : CallSubmatrix(A, r, c)
    \/ \E A \in Matrices : CallDeterminant(A)
    \/ \E A \in Matrices, builder \in Builders : CallFluent(A, builder)

SpecCall == Init /\ [][NextCall]_vars

\* t == p, with the kinds of both: res is [eq, t_point, t_vector, p_point,
\* p_vector]
Compare(t, p) ==
    /\ op = "none"
    /\ op' = "eq"
    /\ recv' = t
    /\ arg' = p
    /\ res' = [eq |-> TEq(t, p),
               t_point |-> is_point(t), t_vector |-> is_vector(t),
               p_point |-> is_point(p), p_vector |-> is_vector(p)]
    /\ UNCHANGED <<called, fluentVars, sphereVars, hitVars, canvasVars>>

\* tuples compared, and asked for their kind
NextKind ==
    \/ Return
    \/ \E t \in KindTuples, p \in KindTuples : Compare(t, p)

SpecKind == Init /\ [][NextKind]_vars

\* tuple arithmetic: sums and products, and the operations that undo them
NextTuple ==
    \/ Return
    \/ \E a \in ArithTuples, b \in ArithTuples : Add(a, b)
    \/ ThenSub
    \/ \E a \in ArithTuples, s \in ArithScalars : MulScalar(a, s)
    \/ ThenDiv

SpecTuple == Init /\ [][NextTuple]_vars

\* ------------------------------------------------------------------ spheres

\* Sphere::new on thread t, first half: let next = next_id.get()
NewGet(t) ==
    /\ pc[t] = "idle"
    /\ Len(spheres) + Cardinality({u \in Threads : pc[u] = "set"}) < MaxSpheres
    /\ next' = [next EXCEPT ![t] = counter[t]]
    /\ pc' = [pc EXCEPT ![t] = "set"]
    /\ UNCHANGED <<counter, spheres, maker, ray, target, xs, panicked>>
    /\ UNCHANGED <<fluentVars, matrixVars, hitVars, canvasVars>>

\* Sphere::new that does not store the incremented counter
NewSet_no_increment(t) ==
    /\ pc[t] = "set"
    /\ counter' = counter
    /\ spheres' = Append(spheres, Sphere(next[t], identity))
    /\ maker' = Append(maker, t)
    /\ pc' = [pc EXCEPT ![t] = "idle"]
    /\ UNCHANGED <<next, ray, target, xs, panicked>>
    /\ UNCHANGED <<fluentVars, matrixVars, hitVars, canvasVars>>

\* Sphere::new on thread t, second half: next_id.set(next + 1) and
\* Sphere{id: next, transform: Matrix::identity()}
NewSet(t) ==
    /\ pc[t] = "set"
    /\ counter' = [counter EXCEPT ![t] = next[t] + 1]
    /\ spheres' = Append(spheres, Sphere(next[t], identity))
    /\ maker' = Append(maker, t)
    /\ pc' = [pc EXCEPT ![t] = "idle"]
    /\ UNCHANGED <<next, ray, target, xs, panicked>>
    /\ UNCHANGED <<fluentVars, matrixVars, hitVars, canvasVars>>

\* spheres[i].transform = T; needs the sphere not borrowed by intersections
SetTransform(i, T) ==
    /\ i \in 1..Len(spheres)
    /\ target # i
    /\ spheres' = [spheres EXCEPT ![i].transform = T]
    /\ UNCHANGED <<counter, pc, next, maker, ray, target, xs, panicked>>
    /\ UNCHANGED <<fluentVars, matrixVars, hitVars, canvasVars>>

\* let xs = spheres[i].intersect(&r)
Intersect(i, r) ==
    /\ i \in 1..Len(spheres)
    /\ target = 0
    /\ Representable(spheres[i], r)
    /\ ray' = r
    /\ target' = i
    /\ LET v == intersect(spheres[i], r)
       IN  IF v = Panic
           THEN xs' = <<>> /\ panicked' = TRUE
           ELSE xs' = v.list /\ panicked' = FALSE
    /\ UNCHANGED <<counter, pc, next, spheres, maker>>
    /\ UNCHANGED <<fluentVars, matrixVars, hitVars, canvasVars>>

\* xs goes out of scope
DropIntersections ==
    /\ target # 0
    /\ ray' = None
    /\ target' = 0
    /\ xs' = <<>>
    /\ panicked' = FALSE
    /\ UNCHANGED <<counter, pc, next, spheres, maker>>
    /\ UNCHANGED <<fluentVars, matrixVars, hitVars, canvasVars>>

\* the threads construct spheres; transforms are assigned and rays intersected
Next ==
    \/ \E t \in Threads : NewGet(t)
    \/ \E t \in Threads : NewSet(t)
    \/ \E i \in 1..MaxSpheres, T \in FewTransforms : SetTransform(i, T)
    \/ \E i \in 1..MaxSpheres, r \in FewRays : Intersect(i, r)
    \/ DropIntersections

Spec == Init /\ [][Next]_vars

\* one thread constructs one sphere, assigns transforms to it and intersects rays
NextIntersect ==
    \/ (spheres = <<>> /\ NewGet(1))
    \/ NewSet(1)
    \/ \E T \in Transforms : SetTransform(1, T)
    \/ \E r \in Rays : Intersect(1, r)
    \/ DropIntersections

SpecIntersect == Init /\ [][NextIntersect]_vars

\* ------------------------------------------------------------------ hit

\* let i = hit(&list)
Hit(list) ==
    /\ hres = NoCall
    /\ hxs' = list
    /\ hres' = hit(list)
    /\ UNCHANGED <<fluentVars, matrixVars, sphereVars, canvasVars>>

\* the list and the hit go out of scope
DropHit ==
    /\ hres # NoCall
    /\ hxs' = <<>>
    /\ hres' = NoCall
    /\ UNCHANGED <<fluentVars, matrixVars, sphereVars, canvasVars>>

NextHit ==
    \/ \E list \in HitLists : Hit(list)
    \/ DropHit

SpecHit == Init /\ [][NextHit]_vars

\* ------------------------------------------------------------------ canvas

\* canvas = Canvas::new(width, height)
NewCanvas(width, height) ==
    /\ ppm = <<>>
    /\ canvas' = canvas_new(width, height)
    /\ written' = <<>>
    /\ writes' = 0
    /\ UNCHANGED ppm
    /\ UNCHANGED <<fluentVars, matrixVars, sphereVars, hitVars>>

\* canvas.write_pixel(x, y, &colour), with x < width and y < height
WritePixel(x, y, colour) ==
    /\ ppm = <<>>
    /\ x < canvas.width
    /\ y < canvas.height
    /\ canvas' = write_pixel(canvas, x, y, colour)
    /\ written' = [p \in DOMAIN written \cup {<<x, y>>} |->
                      IF p = <<x, y>> THEN colour ELSE written[p]]
    /\ writes' = writes + 1
    /\ UNCHANGED ppm
    /\ UNCHANGED <<fluentVars, matrixVars, sphereVars, hitVars>>

\* the loops of test_to_ppm_splits_long_lines: write_pixel(i, j, &colour) for i
\* in 0..width and j in 0..height; iteration k writes i = k / height, j = k %
\* height, and the iterations lo..hi run in order (first half, then second half)
RECURSIVE FillLoop(_, _, _, _)
FillLoop(from, lo, hi, colour) ==
    IF lo > hi THEN from
    ELSE IF lo = hi
         THEN write_pixel(from, lo \div from.height, lo % from.height, colour)
    ELSE LET mid == (lo + hi) \div 2
         IN  CHOOSE done \in {FillLoop(half, mid + 1, hi, colour) :
                                 half \in {FillLoop(from, lo, mid, colour)}} : TRUE

Fill(colour) ==
    /\ ppm = <<>>
    /\ writes = 0
    /\ written = <<>>
    /\ canvas.width * canvas.height > 0
    /\ canvas' = FillLoop(canvas, 0, canvas.width * canvas.height - 1, colour)
    /\ written' = [p \in (0..(canvas.width - 1)) \X (0..(canvas.height - 1)) |-> colour]
    /\ UNCHANGED <<writes, ppm>>
    /\ UNCHANGED <<fluentVars, matrixVars, sphereVars, hitVars>>

\* ppm = canvas.to_ppm()
ToPpm ==
    /\ ppm = <<>>
    /\ ppm' = to_ppm(canvas)
    /\ UNCHANGED <<canvas, written, writes>>
    /\ UNCHANGED <<fluentVars, matrixVars, sphereVars, hitVars>>

\* the caller drops the PPM text
DropPpm ==
    /\ ppm # <<>>
    /\ ppm' = <<>>
    /\ UNCHANGED <<canvas, written, writes>>
    /\ UNCHANGED <<fluentVars, matrixVars, sphereVars, hitVars>>

\* canvas.write_pixel(x, y, &colour) for any x and y: recv is the canvas before
\* the call, res the canvas after it, Panic when the index is past the buffer
\* (the canvas is then left as it was)
WritePixelAt(x, y, colour) ==
    /\ ppm = <<>>
    /\ op' = "write_pixel"
    /\ recv' = canvas
    /\ arg' = [x |-> x, y |-> y, colour |-> colour]
    /\ res' = write_pixel(canvas, x, y, colour)
    /\ called' = None
    /\ canvas' = IF write_pixel(canvas, x, y, colour) = Panic THEN canvas
                 ELSE write_pixel(canvas, x, y, colour)
    /\ written' = IF x < canvas.width /\ y < canvas.height
                  THEN [p \in DOMAIN written \cup {<<x, y>>} |->
                           IF p = <<x, y>> THEN colour ELSE written[p]]
                  ELSE written
    /\ writes' = writes + 1
    /\ UNCHANGED ppm
    /\ UNCHANGED <<fluentVars, sphereVars, hitVars>>

\* small canvases written pixel by pixel
NextCanvas ==
    \/ \E width \in 0..MaxSide, height \in 0..MaxSide : NewCanvas(width, height)
    \/ \E x \in 0..(MaxSide - 1), y \in 0..(MaxSide - 1), colour \in FewColours :
          writes < MaxWrites /\ WritePixel(x, y, colour)

SpecCanvas == Init /\ [][NextCanvas]_vars

\* small canvases written at coordinates inside and outside of them
NextCanvasAt ==
    \/ \E width \in 0..MaxSide, height \in 0..MaxSide : NewCanvas(width, height)
    \/ \E x \in 0..MaxSide, y \in 0..MaxSide, colour \in FewColours :
          writes < MaxWrites /\ WritePixelAt(x, y, colour)

SpecCanvasAt == Init /\ [][NextCanvasAt]_vars

\* canvases filled, written once more and put out as PPM
NextPpm ==
    \/ \E width \in PpmWidths, height \in 0..MaxHeight : NewCanvas(width, height)
    \/ \E colour \in Colours : Fill(colour)
    \/ \E x \in {0, 4, 5}, y \in 0..(MaxHeight - 1), colour \in FewColours :
          writes < MaxPpmWrites /\ WritePixel(x, y, colour)
    \/ ToPpm
    \/ DropPpm

SpecPpm == Init /\ [][NextPpm]_vars

\* ------------------------------------------------------------------ claims

\* the builders bs applied to the tuple t one after the other, bs[1] first
RECURSIVE ApplyChain(_, _)
ApplyChain(bs, t) ==
    IF bs = <<>> THEN t ELSE ApplyChain(Tail(bs), MulTuple(Head(bs), t))

\* the chain of transformations_fluent_api
ExampleChain ==
    <<rotation_x(1), scaling(I(5), I(5), I(5)), translation(I(10), I(5), I(7))>>

\* C1: every fluent call returns builder * receiver, so the matrix a chain has
\* built, applied to a tuple, equals the builders applied one after the other in
\* call order to receiver * tuple; identity().rotate_x(pi/2).scale(5,5,5)
\* .translate(10,5,7) maps point(1,0,1) to point(15,0,7).
C1_FluentLeftMultiplies ==
    chain # <<>> =>
        /\ MEq(m, Mul(chain[Len(chain)], prev))
        /\ \A p \in Tuples :
              TEq(MulTuple(m, p), ApplyChain(chain, MulTuple(base, p)))
        /\ (base = identity /\ chain = ExampleChain) =>
              TEq(MulTuple(m, point(One, Zero, One)), point(I(15), Zero, I(7)))

C1_Witness ==
    /\ base = identity
    /\ chain = ExampleChain
    /\ TEq(MulTuple(m, point(One, Zero, One)), point(I(15), Zero, I(7)))

\* the claim's precondition on a matrix: 4x4 with nonzero determinant
Invertible4(M) == has_size(M, 4) /\ determinant(M) # Zero

C9_InvertSingularPanics ==
    (op = "invert" /\ determinant(recv) = Zero) => res = Panic

C9_Witness ==
    op = "invert" /\ recv = MatSingular /\ res = Panic

\* C10: Matrix * Matrix fails fatally when either operand is not 4x4 and
\* Matrix * Tuple when the matrix is not 4x4; no result value is produced.
C10_MulNeeds4x4 ==
    /\ (op = "mul" /\ ~(has_size(recv, 4) /\ has_size(arg, 4))) => res = Panic
    /\ (op = "mul_tuple" /\ ~has_size(recv, 4)) => res = Panic

C10_Witness ==
    /\ op = "mul" /\ recv = MatA /\ arg = Mat2 /\ res = Panic

C10_WitnessTuple ==
    /\ op = "mul_tuple" /\ recv = Mat3 /\ res = Panic

\* the values of t of a list of intersections
Ts(list) == Vec([k \in 1..Len(list) |-> list[k].t], Len(list))

\* the list with the elements at positions i and j exchanged
Swap(list, i, j) ==
    Vec([k \in 1..Len(list) |->
        IF k = i THEN list[j] ELSE IF k = j THEN list[i] ELSE list[k]], Len(list))

\* C2: hit(xs) returns an element of xs with t >= 0 than which no element with
\* t >= 0 has a smaller t (t = 0 qualifies), and None exactly when xs is empty or
\* every t is negative; exchanging two elements of xs does not change the t
\* chosen; over t = 5, 7, -1, 2 it returns t = 2 and over -2, -1 None.
C2_HitIsLeastNonNegative ==
    hres # NoCall =>
        /\ (hres = None) <=>
              (hxs = <<>> \/ \A k \in 1..Len(hxs) : RLt(hxs[k].t, Zero))
        /\ hres # None =>
              /\ \E k \in 1..Len(hxs) : hxs[k] = hres
              /\ RGe(hres.t, Zero)
              /\ \A k \in 1..Len(hxs) :
                    RGe(hxs[k].t, Zero) => ~RLt(hxs[k].t, hres.t)
        /\ \A i \in 1..Len(hxs), j \in 1..Len(hxs) :
              LET other == hit(Swap(hxs, i, j))
              IN  IF hres = None THEN other = None
                  ELSE other # None /\ other.t = hres.t
        /\ Ts(hxs) = <<I(5), I(7), I(-1), I(2)>> => (hres # None /\ hres.t = I(2))
        /\ Ts(hxs) = <<I(-2), I(-1)>> => hres = None

C2_Witness ==
    /\ hres # NoCall
    /\ hres # None
    /\ Ts(hxs) = <<I(5), I(7), I(-1), I(2)>>
    /\ hres.t = I(2)

C2_WitnessZero ==
    /\ hres # NoCall
    /\ hres # None
    /\ Ts(hxs) = <<I(-1), Zero, I(2)>>
    /\ hres.t = Zero

\* an intersect call has returned for a sphere whose transform is invertible
Intersected ==
    target # 0 /\ determinant(spheres[target].transform) # Zero

\* the ray of the call in the object space of the sphere it was called on
InverseTransform == invert(spheres[target].transform)

ObjectRay ==
    Ray(MulTuple(InverseTransform, ray.origin), MulTuple(InverseTransform, ray.direction))

\* a, b, c and b*b - 4*a*c for the origin o and direction d of a ray
CoefA(r) == dot(r.direction, r.direction)

CoefB(r) == RMul(I(2), dot(r.direction, TSub(r.origin, point(Zero, Zero, Zero))))

CoefC(r) ==
    RSub(dot(TSub(r.origin, point(Zero, Zero, Zero)),
             TSub(r.origin, point(Zero, Zero, Zero))), One)

Disc(r) == RSub(RMul(CoefB(r), CoefB(r)), RMul(I(4), RMul(CoefA(r), CoefC(r))))

\* C3: for a sphere with an invertible transform intersect returns no
\* intersection exactly when the discriminant is negative and two otherwise, never
\* one; for a discriminant of zero it returns two intersections with equal t.
C3_ZeroOrTwoIntersections ==
    Intersected =>
        /\ ~panicked
        /\ Len(xs) \in {0, 2}
        /\ (Len(xs) = 0) <=> RLt(Disc(ObjectRay), Zero)
        /\ Disc(ObjectRay) = Zero => (Len(xs) = 2 /\ xs[1].t = xs[2].t)

C3_Witness ==
    /\ Intersected
    /\ Disc(ObjectRay) = Zero
    /\ Len(xs) = 2
    /\ xs[1].t = xs[2].t

C3_WitnessMiss ==
    /\ Intersected
    /\ RLt(Disc(ObjectRay), Zero)
    /\ xs = <<>>

\* C4: any two spheres constructed in the process have different identity tokens,
\* whatever threads constructed them.
C4_TokensUnique ==
    \A i \in 1..Len(spheres), j \in 1..Len(spheres) :
        i # j => spheres[i].id # spheres[j].id

\* the spheres thread t has constructed, as indexes in construction order
MadeBy(t) == {i \in 1..Len(spheres) : maker[i] = t}

\* C5, in every state: a thread's counter is the number of spheres the thread has
\* constructed (0 at the start), and of two spheres constructed on one thread
\* the later has the greater token.
C5_CounterCounts ==
    /\ \A t \in Threads : counter[t] = Cardinality(MadeBy(t))
    /\ \A t \in Threads : \A i \in MadeBy(t), j \in MadeBy(t) :
          i < j => spheres[i].id < spheres[j].id

\* C5, in every step: the counter changes only when a sphere is constructed, and
\* then by one; the token of a sphere never changes, also when its transform is
\* assigned or intersect is called.
C5_Step ==
    /\ \A i \in 1..Len(spheres) : spheres'[i].id = spheres[i].id
    /\ counter' # counter =>
          /\ Len(spheres') = Len(spheres) + 1
          /\ \E t \in Threads :
                counter' = [counter EXCEPT ![t] = counter[t] + 1]
    /\ Len(spheres') # Len(spheres) => counter' # counter

\* C5: the identity counter starts at 0 and is incremented exactly once per
\* Sphere::new and by nothing else; on one thread every sphere has a greater
\* token than the spheres constructed before it; a token never changes.
C5_CounterMonotone == [](C5_CounterCounts) /\ [][C5_Step]_vars

C5_Witness ==
    /\ Len(spheres) = 2
    /\ maker = <<1, 1>>
    /\ spheres[1].id = 0
    /\ spheres[2].id = 1
    /\ spheres[1].transform # identity
    /\ target = 1

\* the ray of the tests: from point(0,0,-5) in direction vector(0,0,1)
TestRay == Ray(point(Zero, Zero, I(-5)), vector(Zero, Zero, One))

\* C6: for a sphere with an invertible transform T, intersect(r) returns as many
\* intersections, with the same t, as a sphere with the identity transform
\* intersected with the ray of origin T.invert() * r.origin and direction
\* T.invert() * r.direction; with T = scaling(2,2,2) the test ray gives t = 3 and
\* t = 7, with T = translation(5,0,0) it gives none.
C6_IntersectInObjectSpace ==
    Intersected =>
        /\ ~panicked
        /\ \A r \in {ObjectRay} :
              LET unit == intersect(Sphere(spheres[target].id, identity), r)
              IN  unit # Panic /\ Ts(unit.list) = Ts(xs)
        /\ (spheres[target].transform = scaling(I(2), I(2), I(2)) /\ ray = TestRay)
              => Ts(xs) = <<I(3), I(7)>>
        /\ (spheres[target].transform = translation(I(5), Zero, Zero) /\ ray = TestRay)
              => xs = <<>>

C6_Witness ==
    /\ Intersected
    /\ spheres[target].transform = scaling(I(2), I(2), I(2))
    /\ ray = TestRay
    /\ Ts(xs) = <<I(3), I(7)>>

\* a * t * t + b * t + c for the ray r
Quadratic(r, t) ==
    RAdd(RAdd(RMul(CoefA(r), RMul(t, t)), RMul(CoefB(r), t)), CoefC(r))

\* C7: for a sphere with the identity transform every t returned by intersect
\* satisfies a*t*t + b*t + c = 0 and the two values returned are the two roots
\* (their sum is -b/a, their product c/a); the test ray gives 4 and 6, the origins
\* point(0,0,0), point(0,0,5) and point(0,2,-5) give -1 and 1, -6 and -4, and none.
C7_RootsOfTheQuadratic ==
    (target # 0 /\ spheres[target].transform = identity) =>
        /\ ~panicked
        /\ \A k \in 1..Len(xs) : Quadratic(ray, xs[k].t) = Zero
        /\ xs # <<>> =>
              /\ Len(xs) = 2
              /\ RAdd(xs[1].t, xs[2].t) = RDiv(RNeg(CoefB(ray)), CoefA(ray))
              /\ RMul(xs[1].t, xs[2].t) = RDiv(CoefC(ray), CoefA(ray))
        /\ ray = TestRay => Ts(xs) = <<I(4), I(6)>>
        /\ ray = Ray(point(Zero, Zero, Zero), vector(Zero, Zero, One))
              => Ts(xs) = <<I(-1), One>>
        /\ ray = Ray(point(Zero, Zero, I(5)), vector(Zero, Zero, One))
              => Ts(xs) = <<I(-6), I(-4)>>
        /\ ray = Ray(point(Zero, I(2), I(-5)), vector(Zero, Zero, One))
              => xs = <<>>

C7_Witness ==
    /\ target # 0
    /\ spheres[target].transform = identity
    /\ ray = Ray(point(I(-3), Zero, Zero), vector(I(2), Zero, Zero))
    /\ Ts(xs) = <<One, I(2)>>

\* ------------------------------------------------------------------ claims on matrices

\* C11: identity() is neutral on both sides of the matrix product of 4x4
\* matrices, identity() * M == M and M * identity() == M, and identity() * t == t
\* for every tuple t.
C11_IdentityIsNeutral ==
    /\ (op = "mul" /\ recv = identity /\ has_size(arg, 4)) => MEq(res, arg)
    /\ (op = "mul" /\ arg = identity /\ has_size(recv, 4)) => MEq(res, recv)
    /\ (op = "mul_tuple" /\ recv = identity) => TEq(res, arg)

C11_Witness ==
    op = "mul" /\ recv = MatTimesIdentity /\ arg = identity /\ MEq(res, MatTimesIdentity)

C11_WitnessTuple ==
    op = "mul_tuple" /\ recv = identity /\ arg = raw(One, I(2), I(3), One) /\ TEq(res, arg)

\* 1 when i >= removed, else 0: the shift of an index past a removed row or column
Shift(i, removed) == IF i >= removed THEN 1 ELSE 0

\* the matrix the claim describes: M with row r and column c taken out
Without(M, r, c) ==
    LET n == M.rows - 1
    IN  [rows |-> n, cols |-> n,
         data |-> Vec([k \in 1..(n * n) |->
                    LET i == (k - 1) \div n
                        j == (k - 1) % n
                    IN  at(M, i + Shift(i, r), j + Shift(j, c))], n * n)]

\* C12: for an n x n matrix M (n in 2..4), row < n and col < n, M.submatrix(row,
\* col) is the (n-1) x (n-1) matrix whose cell (i, j) is M.at(i + (1 if i >= row),
\* j + (1 if j >= col)): the cells of that row and column are removed, the others
\* keep their row-major order.
C12_SubmatrixRemovesRowAndColumn ==
    (op = "submatrix" /\ arg.row < recv.rows /\ arg.col < recv.cols) =>
        /\ res # Panic
        /\ res.rows = recv.rows - 1
        /\ res.cols = recv.cols - 1
        /\ Len(res.data) = res.rows * res.cols
        /\ \A i \in 0..(res.rows - 1), j \in 0..(res.cols - 1) :
              at(res, i, j) = at(recv, i + Shift(i, arg.row), j + Shift(j, arg.col))
        /\ res = Without(recv, arg.row, arg.col)

C12_Witness ==
    /\ op = "submatrix" /\ recv = MatDet4 /\ arg = [row |-> 2, col |-> 1]
    /\ res = new3x3(Cells(<<-2, 3, 5, -3, 7, 3, -6, 7, -9>>))

\* the permutations of 0..n-1
Perms(n) ==
    {p \in [0..(n - 1) -> 0..(n - 1)] : \A i, j \in 0..(n - 1) : p[i] = p[j] => i = j}

\* the number of inversions of a permutation
Inversions(p, n) ==
    Cardinality({ij \in (0..(n - 1)) \X (0..(n - 1)) : ij[1] < ij[2] /\ p[ij[1]] > p[ij[2]]})

\* the product of the cells (i, p[i]) of rows i..n-1
RECURSIVE PermProduct(_, _, _)
PermProduct(M, p, i) ==
    IF i >= M.rows THEN One ELSE RMul(at(M, i, p[i]), PermProduct(M, p, i + 1))

RECURSIVE LeibnizSum(_, _)
LeibnizSum(M, ps) ==
    IF ps = {} THEN Zero
    ELSE LET p == CHOOSE q \in ps : TRUE
             term == PermProduct(M, p, 0)
         IN  RAdd(IF Inversions(p, M.rows) % 2 = 0 THEN term ELSE RNeg(term),
                  LeibnizSum(M, ps \ {p}))

\* the signed sum over the permutations that send row 0 to column c, c0, ..., n-1
RECURSIVE LeibnizFrom(_, _)
LeibnizFrom(M, c0) ==
    IF c0 >= M.cols THEN Zero
    ELSE RAdd(LeibnizSum(M, {p \in Perms(M.rows) : p[0] = c0}), LeibnizFrom(M, c0 + 1))

\* the mathematical determinant: the signed sum over the permutations
Leibniz(M) == LeibnizFrom(M, 0)

\* C13: determinant() of a 2x2, 3x3 or 4x4 matrix is the mathematical determinant
\* (the Leibniz sum): a*d - b*c for 2x2; for larger sizes cofactor(r, c) is the
\* determinant of the matrix without row r and column c, negated when r + c is
\* odd, and determinant() is the sum over the columns i of at(0, i) * cofactor(0, i).
C13_DeterminantIsLeibniz ==
    op = "determinant" =>
        /\ res = Leibniz(recv)
        /\ has_size(recv, 2) =>
              res = RSub(RMul(at(recv, 0, 0), at(recv, 1, 1)),
                         RMul(at(recv, 0, 1), at(recv, 1, 0)))
        /\ ~has_size(recv, 2) =>
              \A r \in 0..(recv.rows - 1), c \in 0..(recv.cols - 1) :
                 LET d == Leibniz(Without(recv, r, c))
                 IN  /\ minor(recv, r, c) = d
                     /\ cofactor(recv, r, c) = IF (r + c) % 2 = 1 THEN RNeg(d) ELSE d
        /\ (recv = Mat2 => res = I(17))
        /\ (recv = MatDet3 => res = I(-196))
        /\ (recv = MatDet4 => res = I(-4071))

C13_Witness ==
    op = "determinant" /\ recv = MatDet4 /\ res = I(-4071) /\ Leibniz(recv) = I(-4071)

C13_Witness3x3 ==
    op = "determinant" /\ recv = MatDet3 /\ res = I(-196)

\* C14: for a square matrix M, M.transpose() has the size of M and its cell (r, c)
\* is M.at(c, r); so M.transpose().transpose() == M and identity().transpose() ==
\* identity().
C14_TransposeSwapsIndices ==
    op = "transpose" =>
        /\ res.rows = recv.rows
        /\ res.cols = recv.cols
        /\ Len(res.data) = Len(recv.data)
        /\ \A r \in 0..(recv.rows - 1), c \in 0..(recv.cols - 1) :
              at(res, r, c) = at(recv, c, r)
        /\ MEq(transpose(res), recv)
        /\ (recv = identity => MEq(res, identity))

C14_Witness ==
    /\ op = "transpose" /\ recv = MatA
    /\ res = new4x4(Cells(<<1, 0, 1, 0, 2, 1, 0, 0, 0, 0, 2, 1, 0, 1, 0, 2>>))

\* C15: translation(x, y, z) * v == v for every vector v, translation(x, y, z) *
\* point(a, b, c) == point(a + x, b + y, c + z), and translation(x, y, z).invert()
\* moves a point by (-x, -y, -z); with translation(5, -3, 2), point(-3, 4, 5) goes
\* to point(2, 1, 7) and, by the inverse, to point(-8, 7, 3).
C15_TranslationMovesPoints ==
    \A o \in Offsets :
        /\ (op = "mul_tuple" /\ recv = translation(o[1], o[2], o[3])) =>
              /\ arg.w = Zero => TEq(res, arg)
              /\ arg.w = One =>
                    TEq(res, point(RAdd(arg.x, o[1]), RAdd(arg.y, o[2]), RAdd(arg.z, o[3])))
        /\ (op = "invert_mul_tuple" /\ recv = translation(o[1], o[2], o[3])
              /\ arg.w = One) =>
              /\ res # Panic
              /\ TEq(res, point(RSub(arg.x, o[1]), RSub(arg.y, o[2]), RSub(arg.z, o[3])))

C15_Witness ==
    /\ op = "mul_tuple" /\ recv = translation(I(5), I(-3), I(2))
    /\ arg = point(I(-3), I(4), I(5)) /\ res = point(I(2), I(1), I(7))

C15_WitnessInverse ==
    /\ op = "invert_mul_tuple" /\ recv = translation(I(5), I(-3), I(2))
    /\ arg = point(I(-3), I(4), I(5)) /\ res = point(I(-8), I(7), I(3))

C15_WitnessVector ==
    /\ op = "mul_tuple" /\ recv = translation(I(5), I(-3), I(2))
    /\ arg = vector(I(-3), I(4), I(5)) /\ res = arg

\* ------------------------------------------------------------------ claims on tuples

\* every component of a + b is an f32: the addition does not round
AddExact(a, b) ==
    /\ F32(RAdd(a.x, b.x)) = RAdd(a.x, b.x)
    /\ F32(RAdd(a.y, b.y)) = RAdd(a.y, b.y)
    /\ F32(RAdd(a.z, b.z)) = RAdd(a.z, b.z)
    /\ F32(RAdd(a.w, b.w)) = RAdd(a.w, b.w)

\* every component of a * s is an f32: the multiplication does not round
MulExact(a, s) ==
    /\ F32(RMul(a.x, s)) = RMul(a.x, s)
    /\ F32(RMul(a.y, s)) = RMul(a.y, s)
    /\ F32(RMul(a.z, s)) = RMul(a.z, s)
    /\ F32(RMul(a.w, s)) = RMul(a.w, s)

\* C16, as stated: for all tuples a and b and every scalar s # 0,
\* (a + b) - b == a and (a * s) / s == a.
C16_RoundTripAlways ==
    /\ op = "add_sub" => TEq(res, recv)
    /\ op = "mul_div" => TEq(res, recv)

\* C16, amended: for all finite tuples a and b and every scalar s # 0,
\* (a + b) - b == a whenever no component of a + b is rounded, and
\* (a * s) / s == a whenever no component of a * s is rounded; the four
\* operations act on all four components x, y, z and w.
C16_RoundTripWhenExact ==
    /\ (op = "add_sub" /\ AddExact(recv, arg)) => TEq(res, recv)
    /\ (op = "mul_div" /\ MulExact(recv, arg)) => TEq(res, recv)
    /\ (op = "add" /\ recv = point(I(3), I(-2), I(5)) /\ arg = vector(I(-2), I(3), I(1)))
          => res = point(One, One, I(6))
    /\ (op = "mul_scalar" /\ recv = raw(One, I(-2), I(3), I(-4)) /\ arg = Q(7, 2))
          => res = raw(Q(7, 2), I(-7), Q(21, 2), I(-14))

C16_Witness ==
    /\ op = "add_sub" /\ recv = raw(Q(7, 2), Q(-3, 4), I(100), I(2))
    /\ arg = raw(One, I(-2), I(3), I(-4)) /\ AddExact(recv, arg) /\ res = recv

C16_WitnessScalar ==
    /\ op = "mul_div" /\ recv = raw(One, I(-2), I(3), I(-4)) /\ arg = Q(7, 2)
    /\ MulExact(recv, arg) /\ res = recv

\* ------------------------------------------------------------------ claims on intersections

\* #[derive(PartialEq)] on Sphere: the ids are equal and the transforms compare equal
SphereEq(a, b) == a.id = b.id /\ MEq(a.transform, b.transform)

\* C17: every intersection returned by s.intersect(r) has its object equal to s,
\* and unequal to every other sphere constructed by a separate Sphere::new call,
\* even one with the same transform.
C17_ObjectIsTheSphere ==
    (target # 0 /\ ~panicked) =>
        \A k \in 1..Len(xs) :
            /\ SphereEq(xs[k].object, spheres[target])
            /\ \A j \in 1..Len(spheres) :
                  j # target => ~SphereEq(xs[k].object, spheres[j])

\* C20: for a sphere with an invertible transform and a ray with a nonzero
\* direction, when intersect returns two intersections the t of the first is less
\* than or equal to the t of the second; a is positive and nothing is sorted.
C20_RootsInOrder ==
    (Intersected /\ ~panicked /\ Len(xs) = 2) =>
        /\ RLt(Zero, CoefA(ObjectRay))
        /\ RGe(xs[2].t, xs[1].t)

C20_Witness ==
    /\ Intersected /\ ~panicked /\ Len(xs) = 2
    /\ spheres[target].transform = scaling(I(2), I(2), I(2))
    /\ ray = TestRay
    /\ RLt(xs[1].t, xs[2].t)

C20_WitnessBackwards ==
    /\ Intersected /\ ~panicked /\ Len(xs) = 2
    /\ RLt(dot(ray.direction, vector(One, One, One)), Zero)
    /\ RLt(xs[1].t, xs[2].t)

\* ------------------------------------------------------------------ claims on the canvas

\* the colour the claim gives pixel (x, y): that of the most recent write to it,
\* black when it was never written
LastWritten(x, y) ==
    IF <<x, y>> \in DOMAIN written THEN written[<<x, y>>] ELSE Black

\* C18, in every state: the canvas holds width * height pixels, and read_pixel(x,
\* y) for x < width and y < height is the colour of the most recent write to (x,
\* y), black if there was none (so a new canvas is all black).
C18_PixelsAreLastWrites ==
    /\ Len(canvas.pixels) = canvas.width * canvas.height
    /\ \A x \in 0..(canvas.width - 1), y \in 0..(canvas.height - 1) :
          read_pixel(canvas, x, y) = LastWritten(x, y)
    /\ (writes = 0 /\ written = <<>>) =>
          \A k \in 1..Len(canvas.pixels) : CEq(canvas.pixels[k], Black)
    /\ (canvas.width = 2 /\ canvas.height = 2 /\ <<1, 1>> \in DOMAIN written) =>
          canvas.pixels[4] = written[<<1, 1>>]

\* C18, in every step that is a write_pixel call: width, height and the number
\* of pixels stay, and every pixel but the one written keeps its colour.
C18_Step ==
    (writes' = writes + 1) =>
        /\ canvas'.width = canvas.width
        /\ canvas'.height = canvas.height
        /\ Len(canvas'.pixels) = Len(canvas.pixels)
        /\ \E x \in 0..(canvas.width - 1), y \in 0..(canvas.height - 1) :
              /\ <<x, y>> \in DOMAIN written'
              /\ read_pixel(canvas', x, y) = written'[<<x, y>>]
              /\ \A k \in 1..Len(canvas.pixels) :
                    k # y * canvas.width + x + 1 => canvas'.pixels[k] = canvas.pixels[k]

\* C18: a new Canvas(width, height) holds width * height black pixels; after any
\* write_pixel calls with x < width and y < height, read_pixel(x, y) is the
\* colour of the most recent write to (x, y), or black; each write changes one
\* pixel and leaves width, height and every other pixel alone.
C18_WritesAreLocal == [](C18_PixelsAreLastWrites) /\ [][C18_Step]_vars

C18_Witness ==
    /\ canvas.width = 2 /\ canvas.height = 2 /\ writes = 3
    /\ DOMAIN written = {<<1, 1>>, <<0, 1>>}
    /\ read_pixel(canvas, 1, 1) = Colour(One, Zero, Zero)
    /\ read_pixel(canvas, 0, 1) = Colour(Zero, Q(1, 2), Zero)
    /\ read_pixel(canvas, 0, 0) = Black

\* the 1-based positions, in order, of the characters of text that are in chars
Positions(text, chars) ==
    SelectSeq([i \in 1..Len(text) |-> i], LAMBDA i : text[i] \in chars)

\* the length of the k-th line of a text whose line ends are at the positions ends
LineLength(ends, k) == ends[k] - (IF k = 1 THEN 0 ELSE ends[k - 1]) - 1

\* the k-th piece of text, the pieces ending just before the positions ends
Piece(text, ends, k) ==
    SubSeq(text, (IF k = 1 THEN 0 ELSE ends[k - 1]) + 1, ends[k] - 1)

IsDigit(ch) == \E d \in 1..10 : Digits[d] = ch

DigitValue(ch) == (CHOOSE d \in 1..10 : Digits[d] = ch) - 1

\* the number a text of one to three digits stands for, -1 for any other text
Number(text) ==
    IF Len(text) \notin 1..3 \/ \E i \in 1..Len(text) : ~IsDigit(text[i]) THEN -1
    ELSE IF Len(text) = 1 THEN DigitValue(text[1])
    ELSE IF Len(text) = 2 THEN 10 * DigitValue(text[1]) + DigitValue(text[2])
    ELSE 100 * DigitValue(text[1]) + 10 * DigitValue(text[2]) + DigitValue(text[3])

\* the value the claim gives a colour component: clamped to [0, 1], scaled to
\* 0..255 and rounded to the nearest integer (a half rounds up)
Sample(v) ==
    IF v.n <= 0 THEN 0
    ELSE IF v.n >= v.d THEN 255
    ELSE (510 * v.n + v.d) \div (2 * v.d)

\* the k-th value the claim expects in the pixel data: rows from the top, columns
\* from the left, red, green, blue
ExpectedValue(k) ==
    LET pixel == (k - 1) \div 3
        colour == LastWritten(pixel % canvas.width, pixel \div canvas.width)
        part == (k - 1) % 3
    IN  Sample(IF part = 0 THEN colour.r ELSE IF part = 1 THEN colour.g ELSE colour.b)

\* the canvas of test_to_ppm_splits_long_lines
SplitCanvas == FillLoop(canvas_new(10, 2), 0, 19, Colour(One, Q(4, 5), Q(3, 5)))

\* C19 for a PPM text with line ends at the positions ends, pixel data body (the
\* text after the three lines of the header) and values ending at the positions
\* valueEnds of body
PpmLines(ends, body, valueEnds) ==
    /\ \A k \in 1..Len(ends) : LineLength(ends, k) <= 70
    /\ canvas.width = 0 => body = [k \in 1..canvas.height |-> "\n"]
    /\ canvas.width > 0 =>
          /\ Len(valueEnds) = 3 * canvas.width * canvas.height
          /\ \A k \in 1..Len(valueEnds) :
                \A number \in {Number(Piece(body, valueEnds, k))} :
                    number = ExpectedValue(k) /\ number \in 0..255
          /\ \A r \in 1..canvas.height : body[valueEnds[r * 3 * canvas.width]] = "\n"
    /\ canvas = SplitCanvas =>
          /\ Len(ends) = 7
          /\ <<LineLength(ends, 4), LineLength(ends, 5), LineLength(ends, 6),
               LineLength(ends, 7)>> = <<67, 51, 67, 51>>
          /\ Piece(body, valueEnds, 17) = <<"2", "0", "4">>
          /\ Piece(body, valueEnds, 18) = <<"1", "5", "3">>
          /\ body[valueEnds[17]] = "\n"

\* C19: no line of the to_ppm() output is longer than 70 characters; the 3*width
\* values of each canvas row (integers in 0..255, components clamped to [0, 1]
\* before scaling) appear in column order, no value is split across two lines,
\* each canvas row starts on a new line, and the output ends with a newline.
C19_PpmLines ==
    ppm # <<>> =>
        /\ ppm[Len(ppm)] = "\n"
        /\ \A ends \in {Positions(ppm, {"\n"})} :
              /\ Len(ends) >= 3
              /\ \A body \in {SubSeq(ppm, ends[3] + 1, Len(ppm))} :
                    \A valueEnds \in {Positions(body, {" ", "\n"})} :
                        PpmLines(ends, body, valueEnds)

\* the long rows of test_to_ppm_splits_long_lines: each is split in two lines
C19_Witness ==
    /\ ppm # <<>>
    /\ canvas = SplitCanvas
    /\ \E ends \in {Positions(ppm, {"\n"})} :
          Len(ends) = 7 /\ LineLength(ends, 4) = 67 /\ LineLength(ends, 5) = 51

\* a clamped component and a row of values of different lengths
C19_WitnessClamped ==
    /\ ppm # <<>> /\ canvas.width = 5 /\ canvas.height = 1 /\ writes = 1
    /\ LastWritten(0, 0) = Colour(Zero, Q(1, 2), Zero)
    /\ ppm = ppm_header(5, 1)
               \o <<"0", " ", "1", "2", "8", " ", "0", " ">>
               \o <<"0", " ", "0", " ", "0", " ", "0", " ", "0", " ", "0", " ">>
               \o <<"0", " ", "0", " ", "0", " ", "0", " ", "0", " ", "0", "\n">>

\* ------------------------------------------------------------------ claims on products

\* the sum over k in 0..3 of f[k], added in the order of k
SumK(f) == RAdd(RAdd(RAdd(f[0], f[1]), f[2]), f[3])

\* the components (x, y, z, w) of a tuple, by index
Component(t, i) == IF i = 0 THEN t.x ELSE IF i = 1 THEN t.y ELSE IF i = 2 THEN t.z ELSE t.w

\* C21: cell (r, c) of A * B is the sum over k of A.at(r, k) * B.at(k, c);
\* component i of A * t is the sum over k of A.at(i, k) * t[k]; the four operator
\* overloads (owned or borrowed operands) give the same result.
C21_ProductIsRowTimesColumn ==
    /\ (op = "mul" /\ has_size(recv, 4) /\ has_size(arg, 4)) =>
          /\ res # Panic
          /\ has_size(res, 4) /\ Len(res.data) = 16
          /\ \A r \in 0..3, c \in 0..3 :
                at(res, r, c) = SumK([k \in 0..3 |-> RMul(at(recv, r, k), at(arg, k, c))])
          /\ MulOwned(recv, arg) = res
          /\ MulOwnedRef(recv, arg) = res
          /\ MulRefOwned(recv, arg) = res
    /\ (op = "mul_tuple" /\ has_size(recv, 4)) =>
          /\ res # Panic
          /\ \A i \in 0..3 :
                Component(res, i)
                    = SumK([k \in 0..3 |-> RMul(at(recv, i, k), Component(arg, k))])
          /\ MulTupleOwned(recv, arg) = res
          /\ MulTupleOwnedRef(recv, arg) = res
          /\ MulTupleRefOwned(recv, arg) = res

\* a product of two matrices that do not commute
C21_Witness ==
    /\ op = "mul" /\ recv = MatA /\ arg = MatB
    /\ res = new4x4(Cells(<<2, 2, 1, 0,
                            0, 2, 0, 1,
                            4, 0, -1, 4,
                            1, 2, -1, 4>>))

\* test_can_multiple_matrix_4x4_with_tuple
C21_WitnessTuple ==
    /\ op = "mul_tuple" /\ recv = MatTimesIdentity /\ arg = raw(One, I(2), I(3), One)
    /\ res = raw(I(18), I(24), I(33), One)

\* ------------------------------------------------------------------ claims on calls

\* C22: transpose, submatrix, invert, determinant, multiplication and the fluent
\* methods leave their receiver and arguments unchanged (same rows, cols and
\* cells); transpose and invert read every source cell from the unmodified input,
\* so cell (r, c) of the transpose is cell (c, r) of the receiver as passed, and
\* cell (c, r) of the inverse is its cofactor(r, c) over its determinant.
C22_CallsLeaveOperandsAlone ==
    called # None =>
        /\ recv = called.recv
        /\ arg = called.arg
        /\ op = "transpose" =>
              /\ res.rows = called.recv.rows /\ res.cols = called.recv.cols
              /\ \A r \in 0..(res.rows - 1), c \in 0..(res.cols - 1) :
                    at(res, r, c) = at(called.recv, c, r)
        /\ (op = "invert" /\ res # Panic) =>
              /\ res.rows = called.recv.rows /\ res.cols = called.recv.cols
              /\ \A r \in 0..(res.rows - 1), c \in 0..(res.cols - 1) :
                    at(res, c, r)
                        = RDiv(cofactor(called.recv, r, c), determinant(called.recv))
        /\ op = "mul" => res = Mul(called.recv, called.arg)
        /\ op = "fluent" => res = Mul(called.arg, called.recv)

\* the transpose of a matrix that is not symmetric: the cells of the lower
\* triangle are written after the upper ones
C22_Witness ==
    /\ called # None /\ op = "transpose" /\ called.recv = MatA
    /\ at(res, 0, 1) = Zero /\ at(res, 1, 0) = I(2)

\* the inverse of a matrix that is not symmetric
C22_WitnessInvert ==
    /\ called # None /\ op = "invert" /\ called.recv = MatB /\ res # Panic
    /\ MEq(Mul(res, MatB), identity)

\* a fluent call: the receiver is the right operand of the product
C22_WitnessFluent ==
    /\ called # None /\ op = "fluent" /\ called.recv = MatA
    /\ called.arg = translation(I(10), I(5), I(7)) /\ res # MatA /\ recv = MatA

\* ------------------------------------------------------------------ claims on 2x2 matrices

\* the inverse of the 2x2 matrix [[a, b], [c, d]] by the closed formula
Inverse2x2(M) ==
    LET a == at(M, 0, 0)
        b == at(M, 0, 1)
        c == at(M, 1, 0)
        d == at(M, 1, 1)
        det == RSub(RMul(a, d), RMul(b, c))
    IN  new2x2(<<RDiv(d, det), RDiv(RNeg(b), det), RDiv(RNeg(c), det), RDiv(a, det)>>)

\* C23: for every 2x2 matrix M = [[a, b], [c, d]] with a*d - b*c # 0, M.invert()
\* returns the 2x2 matrix [[d, -b], [-c, a]] with each cell divided by a*d - b*c;
\* minor(r, c) of a 2x2 matrix is the single cell left after removing row r and
\* column c.
C23_Inverse2x2 ==
    (op = "invert" /\ has_size(recv, 2) /\ determinant(recv) # Zero) =>
        /\ res = Inverse2x2(recv)
        /\ \A r \in 0..1, c \in 0..1 : minor(recv, r, c) = at(recv, 1 - r, 1 - c)

\* ------------------------------------------------------------------ claims on reachable matrices

\* a matrix is square, and its buffer has exactly rows * cols cells
WellFormed(M) == M.rows = M.cols /\ Len(M.data) = M.rows * M.cols

\* C24: every Matrix reachable from the constructors and the builders through
\* transpose, submatrix, invert, multiplication and fluent calls is square, its
\* buffer has rows * cols entries, and at(r, c) with r < rows and c < cols reads
\* inside the buffer.
C24_ReachableMatricesWellFormed ==
    /\ WellFormed(m)
    /\ WellFormed(prev)
    /\ \A r \in 0..(m.rows - 1), c \in 0..(m.cols - 1) :
          (r * m.cols + c + 1) \in DOMAIN m.data

\* a 2x2 matrix cut out of a 3x3 submatrix of a 4x4 matrix
C24_Witness ==
    /\ chain = <<[call |-> "submatrix"], [call |-> "submatrix"]>>
    /\ base = MatA /\ m.rows = 2 /\ m.cols = 2 /\ Len(m.data) = 4

\* the inverse of a product
C24_WitnessInverse ==
    /\ chain = <<[call |-> "mul"], [call |-> "invert"]>> /\ base = MatA /\ MEq(Mul(m, prev), identity)

\* a 3x3 matrix transposed and cut down to 2x2
C24_WitnessSmall ==
    /\ chain = <<[call |-> "transpose"], [call |-> "submatrix"]>> /\ base = Mat3 /\ m.rows = 2

\* ------------------------------------------------------------------ claims on transformations

\* C25: every matrix obtained from identity() by translate, scale, rotate_x,
\* rotate_y and rotate_z calls is 4x4 with last row (0, 0, 0, 1), so multiplying
\* it with a tuple leaves w unchanged: points go to points, vectors to vectors.
C25_TransformsKeepW ==
    base = identity =>
        /\ has_size(m, 4) /\ Len(m.data) = 16
        /\ row(m, 3) = raw(Zero, Zero, Zero, One)
        /\ \A t \in Tuples :
              \A moved \in {MulTuple(m, t)} :
                  /\ moved # Panic
                  /\ moved.w = t.w
                  /\ t.w = One => moved.w = One
                  /\ t.w = Zero => moved.w = Zero

\* a chain of three calls from identity() that moves the point (1, 0, 1)
C25_Witness ==
    /\ base = identity /\ Len(chain) = 3
    /\ chain[1] = rotation_x(1) /\ chain[3] = translation(I(10), I(5), I(7))
    /\ MulTuple(m, point(One, Zero, One)) # point(One, Zero, One)
    /\ MulTuple(m, point(One, Zero, One)).w = One

\* a scaled and rotated matrix applied to a vector
C25_WitnessVector ==
    /\ base = identity /\ Len(chain) = 2
    /\ chain[1] = scaling(I(5), I(5), I(5)) /\ chain[2] = rotation_z(3)
    /\ MulTuple(m, vector(I(-3), I(4), I(5))) = vector(I(-25), Zero, I(25))

\* C26: for every ray, Sphere.intersect on a sphere whose transform has
\* determinant 0 fails fatally and returns no intersection set.
C26_SingularTransformPanics ==
    (target # 0 /\ determinant(spheres[target].transform) = Zero) =>
        /\ panicked
        /\ xs = <<>>
        /\ intersect(spheres[target], ray) = Panic

\* scaling(0, 0, 0) assigned to the transform field, then a ray through the
\* centre
C26_Witness ==
    /\ target = 1 /\ spheres[1].transform = scaling(Zero, Zero, Zero)
    /\ ray = Ray(point(Zero, Zero, I(-5)), vector(Zero, Zero, One))
    /\ panicked

\* ------------------------------------------------------------------ claims on writes outside the canvas

\* C27: write_pixel(x, y, colour) with x >= width or y >= height never changes a
\* pixel of the canvas: every (x', y') with x' < width and y' < height reads back
\* the same colour after the call as before it.
C27_OutsideWritesChangeNothing ==
    (op = "write_pixel" /\ (arg.x >= recv.width \/ arg.y >= recv.height)
        /\ res # Panic) =>
        /\ res.width = recv.width /\ res.height = recv.height
        /\ \A x \in 0..(recv.width - 1), y \in 0..(recv.height - 1) :
              read_pixel(res, x, y) = read_pixel(recv, x, y)

\* ------------------------------------------------------------------ claims on the kinds of tuples

\* C28 as stated: for all tuples t and p with t == p, p.is_point() implies
\* t.is_point() and p.is_vector() implies t.is_vector(); and no tuple satisfies
\* both is_point() and is_vector().
C28_KindsFollowEquality ==
    op = "eq" =>
        /\ res.eq => /\ res.p_point => res.t_point
                     /\ res.p_vector => res.t_vector
        /\ ~(res.t_point /\ res.t_vector)

\* C28, amended: for all tuples t and p with t == p, p.is_point() implies that t
\* is no vector and |t.w - 1| < 2 * EPSILON, and p.is_vector() implies that t is
\* no point and |t.w| <= EPSILON; with t.w = p.w the kinds of t are the kinds of
\* p; and no tuple satisfies both is_point() and is_vector().
C28_EqualTuplesNeverDifferInKind ==
    op = "eq" =>
        /\ res.eq =>
              /\ res.p_point =>
                    /\ ~res.t_vector
                    /\ RLt(RAbs(RSub(recv.w, One)), Q(2, EpsilonDen))
              /\ res.p_vector =>
                    /\ ~res.t_point
                    /\ ~RLt(Q(1, EpsilonDen), RAbs(recv.w))
              /\ recv.w = arg.w =>
                    res.t_point = res.p_point /\ res.t_vector = res.p_vector
        /\ ~(res.t_point /\ res.t_vector)

\* a point and an equal tuple one EPSILON above it, which is no point
C28_Witness ==
    /\ op = "eq" /\ res.eq /\ res.p_point /\ ~res.t_point
    /\ arg.w = One /\ recv.w = Q(EpsilonDen + 1, EpsilonDen) /\ recv.x # arg.x

\* a vector and an equal tuple with w = EPSILON / 2, which is no vector
C28_WitnessVector ==
    /\ op = "eq" /\ res.eq /\ res.p_vector /\ ~res.t_vector
    /\ arg.w = Zero /\ recv.w = Q(1, 2 * EpsilonDen)

====
